---------------------------- MODULE Spec2Model ----------------------------
(***************************************************************************)
(* CrediSynth QAA: a model of the analyze service.                         *)
(*                                                                         *)
(*   Spec         the /v1/analyze handler as a state machine: format       *)
(*                detection, input validation, the audit store, the AI     *)
(*                client's retry loop, the explainability call and the     *)
(*                response.                                                *)
(*   SpecScores   the score consolidation and the risk-dimension           *)
(*                derivations of the QSE pipeline, applied to bounded      *)
(*                input reports.                                           *)
(*   SpecGateway  the gateway analyzer's decision engine, applied to       *)
(*                bounded gateway inputs.                                  *)
(*   SpecClient   the AI client's retry loop on its own (run_gemini),      *)
(*                over every configured model, model listing and model     *)
(*                outcome; FairSpecClient adds weak fairness of its steps: *)
(*                an awaited call or sleep eventually completes.           *)
(*   SpecNormalize    _normalize_enums and model_validate on bounded       *)
(*                model answers, applied once and again.                   *)
(*   SpecFallback     synthesize_fallback on bounded input reports,        *)
(*                applied twice with the environment changing in between.  *)
(*   SpecRecommendations  the gateway analyzer's _generate_recommendations *)
(*                on bounded gateway inputs.                               *)
(*   SpecAsync    /v1/analyze/async and /v1/status/{job_id}: job records   *)
(*                in the audit store and the status answers.               *)
(*                                                                         *)
(* Python values are encoded so that every comparison is between values of *)
(* one shape:                                                              *)
(*   - Optional[T] is a sequence of length at most one: None is <<>>,      *)
(*     a present value x is <<x>>;                                         *)
(*   - a str that the code inspects (strip, lower, upper, "in") is the     *)
(*     sequence of its characters; a str that is only passed through is a  *)
(*     TLA+ string;                                                        *)
(*   - a float is a fixed-point integer counting 1/Scale, or NaN.          *)
(***************************************************************************)
EXTENDS Integers, Sequences, FiniteSets, TLC

VARIABLES
    MOCK_MODE,       \* settings.MOCK_MODE
    db_enabled,      \* has_db(): a DATABASE_URL was configured and the engine initialised
    GEMINI_MODEL,    \* the GEMINI_MODEL environment variable
    listed,          \* what genai.list_models offers this key; None when no key is set
    records,         \* the analysis_records table: analysis id -> record
    audit_raised,    \* the audit writes of this request that raised ("created", "completed", "failed")
    pc,              \* where the handler (or the AI client it awaits) stands
    body,            \* the request body, None before a request arrives
    analysis_id,     \* the analysis id of the request, None before it is assigned
    qaa,             \* the QAAQualitativeReport, None before it is built
    outcome,         \* what the handler is about to return or raise, None before it is known
    response,        \* the HTTP response, None while the request is in progress
    fn,              \* the AI client function running: "narrative" or "explainability"
    candidates,      \* the AI client's candidate model names, in order
    attempt,         \* the AI client's attempt number, 1..max_retries
    model_idx,       \* the position in candidates of the model about to be called
    last_err,        \* the message of the last exception caught, None before any
    calls,           \* the model calls this client call has made
    sleeps,          \* the backoff sleeps this client call has made, in seconds
    resp,            \* the last model response the AI client received
    qse,             \* the validated QSEReportInput (the fields the code reads)
    expl,            \* the ExplainabilityExtended of the request, None before it is built
    extended,        \* the scores and risk dimensions of the response, None before
    gateway_input,   \* the validated GatewayAssessmentInput
    decisions        \* the result of _determine_decisions (of _generate_recommendations under
                     \* SpecRecommendations), None before

envVars == <<MOCK_MODE, db_enabled, GEMINI_MODEL, listed>>

auditVars == <<records, audit_raised>>

requestVars == <<pc, body, analysis_id, qaa, outcome, response>>

clientVars == <<fn, candidates, attempt, model_idx, last_err, calls, sleeps, resp>>

scoreVars == <<qse, expl, extended>>

gatewayVars == <<gateway_input, decisions>>

vars == <<envVars, auditVars, requestVars, clientVars, scoreVars, gatewayVars>>

---------------------------------------------------------------------------
(* Optional values *)

None == <<>>

Some(x) == <<x>>

IsNone(o) == o = <<>>

Get(o) == o[1]

Opt(S) == {None} \cup {Some(x) : x \in S}

---------------------------------------------------------------------------
(* Strings as character sequences: str.lower, str.upper, str.strip, "in" *)

UpperChars == <<"A","B","C","D","E","F","G","H","I","J","K","L","M","N","O","P","Q","R","S","T","U","V","W","X","Y","Z">>

LowerChars == <<"a","b","c","d","e","f","g","h","i","j","k","l","m","n","o","p","q","r","s","t","u","v","w","x","y","z">>

Whitespace == {" ", "\t", "\n"}

LowerChar(c) ==
    IF \E i \in DOMAIN UpperChars : UpperChars[i] = c
    THEN LowerChars[CHOOSE i \in DOMAIN UpperChars : UpperChars[i] = c]
    ELSE c

UpperChar(c) ==
    IF \E i \in DOMAIN LowerChars : LowerChars[i] = c
    THEN UpperChars[CHOOSE i \in DOMAIN LowerChars : LowerChars[i] = c]
    ELSE c

Lower(s) == [i \in DOMAIN s |-> LowerChar(s[i])]

Upper(s) == [i \in DOMAIN s |-> UpperChar(s[i])]

Strip(s) ==
    LET keep == {i \in DOMAIN s : s[i] \notin Whitespace}
    IN  IF keep = {} THEN <<>>
        ELSE LET first == CHOOSE i \in keep : \A j \in keep : i <= j
                 last  == CHOOSE i \in keep : \A j \in keep : j <= i
             IN  SubSeq(s, first, last)

\* s.capitalize(): "rejected" -> "Rejected"
Capitalized(s) == IF s = <<>> THEN s ELSE <<UpperChar(s[1])>> \o SubSeq(Lower(s), 2, Len(s))

Contains(tok, s) ==
    \E i \in 1..(Len(s) - Len(tok) + 1) : SubSeq(s, i, i + Len(tok) - 1) = tok

---------------------------------------------------------------------------
(* Floats: fixed point, Scale units to 1.0, and NaN.  A JSON value stored   *)
(* under a section key is a number, NaN, a bool, a string that float()      *)
(* parses ("numstr"), or a string it does not parse ("str").                *)

\* five decimal places are carried (TLC's integers are 32 bits wide);
\* round(x, 4) then drops one of them
Scale == 10^5

Num(n) == [k |-> "num", v |-> n]

NaN == [k |-> "nan", v |-> 0]

Bool(b) == [k |-> "bool", v |-> IF b THEN 1 ELSE 0]

NumStr(n) == [k |-> "numstr", v |-> n]

BadStr == [k |-> "str", v |-> 0]

Zero == Num(0)

One == Num(Scale)

IsNaN(x) == x.k = "nan"

\* float(x) raises ValueError on a string that is no number
FloatRaises(x) == x.k = "str"

\* float(x) where it does not raise
Float(x) ==
    IF x.k = "nan" THEN NaN
    ELSE IF x.k = "bool" THEN Num(x.v * Scale)
    ELSE Num(x.v)

\* isinstance(x, (int, float)): bool is an int
IsNumber(x) == x.k \in {"num", "nan", "bool"}

FAdd(a, b) == IF IsNaN(a) \/ IsNaN(b) THEN NaN ELSE Num(a.v + b.v)

FSub(a, b) == IF IsNaN(a) \/ IsNaN(b) THEN NaN ELSE Num(a.v - b.v)

\* a * (n / d) for a constant n/d
FTimes(a, n, d) == IF IsNaN(a) THEN NaN ELSE Num((a.v * n) \div d)

\* a < b: False when either is NaN
FLt(a, b) == ~IsNaN(a) /\ ~IsNaN(b) /\ a.v < b.v

\* Python's min(a, b) and max(a, b): the first argument unless the second beats it
PyMin(a, b) == IF FLt(b, a) THEN b ELSE a

PyMax(a, b) == IF FLt(a, b) THEN b ELSE a

\* max(0.0, min(1.0, x)) without the upper bound: a plausible slip
Clamp01NoUpper(x) == PyMax(Zero, x)

\* max(0.0, min(1.0, x))
Clamp01(x) == PyMax(Zero, PyMin(One, x))

\* round half to even of v/unit, as an integer
RoundHalfEven(v, unit) ==
    LET q == v \div unit
        r == v % unit
    IN  IF 2 * r < unit THEN q
        ELSE IF 2 * r > unit THEN q + 1
        ELSE IF q % 2 = 0 THEN q ELSE q + 1

\* round(x, 4)
Round4(x) == IF IsNaN(x) THEN NaN ELSE Num(RoundHalfEven(x.v, Scale \div 10^4) * (Scale \div 10^4))

---------------------------------------------------------------------------
(* QSE pipeline: score consolidation (main.py, analyze)                     *)

CreditMin == 300

CreditMax == 850

\* the clamp with its upper bound forgotten: a plausible slip
ClampCreditScoreNoUpper(score) ==
    IF IsNone(score) THEN None
    ELSE IF IsNaN(Get(score)) THEN None
    ELSE LET val == RoundHalfEven(Get(score).v, Scale)
         IN  Some(IF val < CreditMin THEN CreditMin ELSE val)

\* _clamp_credit_score: None stays None; int(round(float(score))) raises on NaN
\* and the except returns None; else max(300, min(850, val))
_clamp_credit_score(score) ==
    IF IsNone(score) THEN None
    ELSE IF IsNaN(Get(score)) THEN None
    ELSE LET val == RoundHalfEven(Get(score).v, Scale)
             lo == IF CreditMax < val THEN CreditMax ELSE val
         IN  Some(IF CreditMin > lo THEN CreditMin ELSE lo)

s_low == <<"l","o","w">>

s_medium == <<"m","e","d","i","u","m">>

s_high == <<"h","i","g","h">>

\* A risk level as the code reads it: a str (character sequence) tagged "s",
\* or a value of another JSON type tagged "x" (governance sections are open).
Str(s) == [t |-> "s", s |-> s]

NotStr == [t |-> "x", s |-> <<>>]

\* Python truthiness of an Optional risk level
LevelTruthy(o) == ~IsNone(o) /\ (Get(o).t = "x" \/ Get(o).s # <<>>)

\* qse.risk_level or governance.get("final_risk_level")
EffectiveRiskLevel(q) ==
    IF LevelTruthy(q.risk_level) THEN q.risk_level ELSE q.final_risk_level

\* _estimate_default_prob_from_level
_estimate_default_prob_from_level(level) ==
    IF IsNone(level) \/ ~LevelTruthy(level) THEN None
    ELSE IF Get(level).t # "s" THEN None
    ELSE LET s == Lower(Strip(Get(level).s))
         IN  IF s = s_low THEN Some(Num((8 * Scale) \div 100))
             ELSE IF s = s_medium THEN Some(Num((18 * Scale) \div 100))
             ELSE IF s = s_high THEN Some(Num((35 * Scale) \div 100))
             ELSE None

\* the fallbacks with the peer default rate consulted before the
\* risk-analysis block: a plausible slip in the order
DefaultProbPeerFirst(q) ==
    IF ~IsNone(q.default_probability) THEN q.default_probability
    ELSE IF ~IsNone(q.anonymized_peer_default_rate) /\ IsNumber(Get(q.anonymized_peer_default_rate))
    THEN Some(Float(Get(q.anonymized_peer_default_rate)))
    ELSE IF ~IsNone(q.risk_analysis) /\ ~IsNone(Get(q.risk_analysis).default_probability)
    THEN Get(q.risk_analysis).default_probability
    ELSE _estimate_default_prob_from_level(EffectiveRiskLevel(q))

\* default_prob: top-level value, else the risk-analysis value, else a numeric
\* peer default rate, else the estimate from the effective risk level
DefaultProb(q) ==
    IF ~IsNone(q.default_probability) THEN q.default_probability
    ELSE IF ~IsNone(q.risk_analysis) /\ ~IsNone(Get(q.risk_analysis).default_probability)
    THEN Get(q.risk_analysis).default_probability
    ELSE IF ~IsNone(q.anonymized_peer_default_rate) /\ IsNumber(Get(q.anonymized_peer_default_rate))
    THEN Some(Float(Get(q.anonymized_peer_default_rate)))
    ELSE _estimate_default_prob_from_level(EffectiveRiskLevel(q))

\* the category of a default probability: < 0.1 Low, < 0.25 Medium, else High
\* (a comparison with NaN is False)
CategoryOfProbability(p) ==
    IF FLt(p, Num((10 * Scale) \div 100)) THEN <<"L","o","w">>
    ELSE IF FLt(p, Num((25 * Scale) \div 100)) THEN <<"M","e","d","i","u","m">>
    ELSE <<"H","i","g","h">>

\* the level is a non-empty str that is low, medium or high once trimmed and
\* lower-cased
RecognizedLevel(level) ==
    /\ ~IsNone(level)
    /\ Get(level).t = "s"
    /\ Lower(Strip(Get(level).s)) \in {s_low, s_medium, s_high}

\* _derive_risk_category with the default probability consulted first: a
\* plausible slip
DeriveRiskCategoryProbabilityFirst(risk_level, default_prob) ==
    IF ~IsNone(default_prob) THEN Some(CategoryOfProbability(Get(default_prob)))
    ELSE IF RecognizedLevel(risk_level)
    THEN Some(Capitalized(Lower(Strip(Get(risk_level).s))))
    ELSE None

\* _derive_risk_category
_derive_risk_category(risk_level, default_prob) ==
    IF RecognizedLevel(risk_level)
    THEN Some(Capitalized(Lower(Strip(Get(risk_level).s))))
    ELSE IF ~IsNone(default_prob) THEN Some(CategoryOfProbability(Get(default_prob)))
    ELSE None

\* the estimate preferred whenever a default probability is there: the input
\* score replaced by the estimate
EstCreditPreferEstimate(q) ==
    LET default_prob == DefaultProb(q)
    IN  IF ~IsNone(default_prob)
        THEN _clamp_credit_score(Some(FSub(Num(850 * Scale), FTimes(Get(default_prob), 550, 1))))
        ELSE _clamp_credit_score(q.credit_score)

\* est_credit: the clamped input score, else 850 - default_prob * 550 clamped
EstCredit(q) ==
    LET est_credit == _clamp_credit_score(q.credit_score)
        default_prob == DefaultProb(q)
    IN  IF IsNone(est_credit) /\ ~IsNone(default_prob)
        THEN _clamp_credit_score(Some(FSub(Num(850 * Scale), FTimes(Get(default_prob), 550, 1))))
        ELSE est_credit

---------------------------------------------------------------------------
(* QSE pipeline: risk dimensions (main.py, analyze).  section.get(k) reads  *)
(* None for an absent section, an empty one and one that lacks k alike.     *)

\* any of the float() conversions of a try block raises
AnyRaises(fields) == \E i \in DOMAIN fields : ~IsNone(fields[i]) /\ FloatRaises(Get(fields[i]))

\* float(x) if x is not None else dflt
FloatOr(o, dflt) == IF IsNone(o) THEN dflt ELSE Float(Get(o))

\* capacity = clamp01((1 - buf) * 0.6 + (1 - res_ratio) * 0.4)
CapacityRisk(q) ==
    IF AnyRaises(<<q.affordability_buffer_ratio, q.residual_income_ratio>>) THEN None
    ELSE IF IsNone(q.affordability_buffer_ratio) \/ IsNone(q.residual_income_ratio) THEN None
    ELSE LET buf == Float(Get(q.affordability_buffer_ratio))
             res_ratio == Float(Get(q.residual_income_ratio))
         IN  Some(Clamp01(FAdd(FTimes(FSub(One, buf), 6, 10), FTimes(FSub(One, res_ratio), 4, 10))))

\* liquidity from cash_buffer_days, blended with overdraft_usage_days_90d
LiquidityRisk(q) ==
    IF AnyRaises(<<q.cash_buffer_days, q.overdraft_usage_days_90d>>) THEN None
    ELSE IF IsNone(q.cash_buffer_days) /\ IsNone(q.overdraft_usage_days_90d) THEN None
    ELSE LET liquidity ==
                 IF IsNone(q.cash_buffer_days) THEN None
                 ELSE Some(Clamp01(FSub(One, PyMin(FTimes(Float(Get(q.cash_buffer_days)), 1, 90), One))))
         IN  IF IsNone(q.overdraft_usage_days_90d) THEN liquidity
             ELSE LET overd == Clamp01(FTimes(Float(Get(q.overdraft_usage_days_90d)), 1, 90))
                      \* (liquidity or 0.0): None and 0.0 both read 0.0
                      liq == IF IsNone(liquidity) THEN Zero ELSE Get(liquidity)
                  IN  Some(FAdd(FTimes(liq, 5, 10), FTimes(overd, 5, 10)))

\* credit_risk = round(min(1, dti_norm * 0.7 + delinquency_norm * 0.3), 4)
CreditRisk(q) ==
    IF AnyRaises(<<q.debt_to_income_ratio, q.delinquency_30d_count_12m,
                   q.delinquency_60d_count_12m, q.delinquency_90d_count_12m>>) THEN None
    ELSE IF IsNone(q.debt_to_income_ratio) THEN None
    ELSE LET dti == Float(Get(q.debt_to_income_ratio))
             del30 == FloatOr(q.delinquency_30d_count_12m, Zero)
             del60 == FloatOr(q.delinquency_60d_count_12m, Zero)
             del90 == FloatOr(q.delinquency_90d_count_12m, Zero)
             dti_norm == Clamp01(FTimes(dti, 10, 6))
             delinquency_norm ==
                 Clamp01(FTimes(FAdd(FAdd(del30, FTimes(del60, 2, 1)), FTimes(del90, 3, 1)), 1, 10))
         IN  Some(Round4(PyMin(One, FAdd(FTimes(dti_norm, 7, 10), FTimes(delinquency_norm, 3, 10)))))

\* the five behavioural signals, in the order the code lists them
SignalFields(q) ==
    << q.behavioral_consistency_score, q.conscientiousness_score,
       q.digital_behavior_intelligence, q.savings_behavior_score,
       q.payment_discipline_score >>

\* signals: the values that are int or float, as floats
Signals(q) ==
    LET f == SignalFields(q)
        idx == {i \in DOMAIN f : ~IsNone(f[i]) /\ IsNumber(Get(f[i]))}
    IN  [i \in idx |-> Float(Get(f[i]))]

\* max(0.0, min(100.0, s))
Bound100(s) == PyMax(Zero, PyMin(Num(100 * Scale), s))

RECURSIVE SumOver(_, _)
SumOver(f, S) ==
    IF S = {} THEN Zero
    ELSE LET i == CHOOSE j \in S : TRUE
         IN  FAdd(f[i], SumOver(f, S \ {i}))

\* FeatureImpactEntry is a pydantic model, not a dict: it has no .get
EntryHasGet == FALSE

\* weights of the behavioural feature names (main.py, the fallback's table), in tenths
FeatureWeight(name) ==
    CASE name = "conscientiousness_score" -> 10
      [] name = "behavioral_consistency_score" -> 10
      [] name = "digital_behavior_intelligence" -> 8
      [] name = "savings_behavior_score" -> 7
      [] name = "payment_discipline_score" -> 10
      [] OTHER -> 0

\* the fallback from expl.feature_importance: item.get raises AttributeError on
\* the first entry and the inner except leaves char_base None
CharBaseFromExplainability(fi) ==
    IF fi = <<>> THEN None
    ELSE IF ~EntryHasGet THEN None
    ELSE LET idx == {i \in DOMAIN fi : FeatureWeight(fi[i].feature) > 0}
             acc == [i \in idx |->
                        FTimes(PyMax(Zero, PyMin(Num(100 * Scale),
                                   FAdd(Num(50 * Scale), FTimes(fi[i].importance, 50, 1)))),
                               FeatureWeight(fi[i].feature), 10)]
         IN  IF idx = {} THEN None
             ELSE Some(FTimes(SumOver(acc, idx), 1, Cardinality(idx)))

\* character_risk = round(clamp01(1 - char_base / 100), 4), char_base the mean of
\* the bounded signals, else the explainability fallback, else 55
CharacterRisk(q, fi) ==
    LET signals == Signals(q)
        bounded == [i \in DOMAIN signals |-> Bound100(signals[i])]
        from_signals ==
            IF DOMAIN signals # {}
            THEN Some(FTimes(SumOver(bounded, DOMAIN bounded), 1, Cardinality(DOMAIN bounded)))
            ELSE CharBaseFromExplainability(fi)
        char_base == IF IsNone(from_signals) THEN Num(55 * Scale) ELSE Get(from_signals)
    IN  Some(Round4(Clamp01(FSub(One, FTimes(char_base, 1, 100)))))

\* the part of the extended response the scores and risk dimensions make up
\* _approval_probability_from, no calibration file present: the base
\* probability of the recommendation, None for anything else
_approval_probability_from(final_rec) ==
    IF IsNone(final_rec) THEN None
    ELSE LET s == Lower(Strip(Get(final_rec)))
         IN  IF s = <<"a","p","p","r","o","v","e">> THEN Some(Round4(Num((85 * Scale) \div 100)))
             ELSE IF s = <<"a","p","p","r","o","v","e"," ","w","i","t","h"," ","c","o","n","d","i","t","i","o","n","s">> THEN Some(Round4(Num((65 * Scale) \div 100)))
             ELSE IF s = <<"m","a","n","u","a","l"," ","r","e","v","i","e","w">> THEN Some(Round4(Num((45 * Scale) \div 100)))
             ELSE IF s = <<"d","e","c","l","i","n","e">> THEN Some(Round4(Num((10 * Scale) \div 100)))
             ELSE None

\* default_prob if default_prob is not None else (scores.approval_probability or 0.5)
GeminiPrediction(default_prob, approval_probability) ==
    IF ~IsNone(default_prob) THEN Get(default_prob)
    ELSE IF ~IsNone(approval_probability) /\ Get(approval_probability).v # 0
    THEN Get(approval_probability)
    ELSE Num(Scale \div 2)

\* a * w and a / w for a weight w, in steps that stay within 32 bits: exact
\* for a whole w, to three decimals of w otherwise
FMul(a, w) ==
    IF IsNaN(a) \/ IsNaN(w) THEN NaN
    ELSE Num(a.v * (w.v \div Scale) + (a.v \div Scale) * (w.v % Scale)
             + ((a.v % Scale) * ((w.v % Scale) \div 100)) \div 1000)

FDiv(a, w) ==
    IF IsNaN(a) \/ IsNaN(w) THEN NaN
    ELSE IF w.v % Scale = 0 THEN Num(a.v \div (w.v \div Scale))
    ELSE Num((a.v \div w.v) * Scale + (((a.v % w.v) * 1000) \div w.v) * 100)

\* sum(...) over the keys of a dict of floats
RECURSIVE SumValues(_, _)
SumValues(f, keys) ==
    IF keys = {} THEN Zero
    ELSE LET k == CHOOSE k \in keys : TRUE
         IN  FAdd(f[k], SumValues(f, keys \ {k}))

\* sum(preds.get(k, 0.0) * wts.get(k, 0.0) for k in wts) / (sum(wts.values()) or 1.0), rounded
ConsensusScore(preds, wts) ==
    LET total == SumValues(wts, DOMAIN wts)
        total_w == IF total.v = 0 THEN One ELSE total
        products == [k \in DOMAIN wts |-> IF k \in DOMAIN preds THEN FMul(preds[k], wts[k]) ELSE Zero]
    IN  Round4(FDiv(SumValues(products, DOMAIN wts), total_w))

\* ensemble_details: the single "gemini" prediction with weight 1.0, the
\* consensus score, and the diversity index, recomputed only for two or more
\* predictions
EnsembleDetailsOf(default_prob, final_rec) ==
    LET preds == [n \in {"gemini"} |-> GeminiPrediction(default_prob, _approval_probability_from(final_rec))]
        wts == [n \in {"gemini"} |-> One]
    IN  [ individual_predictions |-> preds,
          weights                |-> wts,
          consensus_score        |-> ConsensusScore(preds, wts),
          diversity_index        |-> Zero ]

Extended(q, fi) ==
    [ credit_score        |-> _clamp_credit_score(q.credit_score),
      ensemble_details    |-> EnsembleDetailsOf(DefaultProb(q),
                                  IF IsNone(qaa) THEN None ELSE Some(Get(qaa).final_recommendation)),
      default_probability |-> DefaultProb(q),
      risk_category       |-> _derive_risk_category(EffectiveRiskLevel(q), DefaultProb(q)),
      scores              |-> [credit_score |-> EstCredit(q), default_probability |-> DefaultProb(q)],
      risk_dimensions     |-> [capacity_risk  |-> CapacityRisk(q),
                               liquidity_risk |-> LiquidityRisk(q),
                               credit_risk    |-> CreditRisk(q),
                               character_risk |-> CharacterRisk(q, fi)] ]

\* the mock-mode object with explanation_available left true: a plausible slip
MockExplainabilityAvailable ==
    [ global_importance |-> <<>>, feature_importance |-> <<>>,
      explanation_available |-> Some(TRUE) ]

\* the mock-mode explainability object (main.py, analyze)
MockExplainability ==
    [ global_importance |-> <<>>, feature_importance |-> <<>>,
      explanation_available |-> Some(FALSE) ]

\* explainability objects the AI model can return (schema-valid ExplainabilityExtended)
GeminiExplainabilities ==
    { [ global_importance |-> <<>>, feature_importance |-> <<>>, explanation_available |-> None ],
      [ global_importance |-> <<>>, feature_importance |-> <<>>,
        explanation_available |-> Some(TRUE) ],
      [ global_importance |-> <<"conscientiousness_score">>,
        feature_importance |-> << [feature |-> "conscientiousness_score",
                                   importance |-> Num((9 * Scale) \div 10),
                                   impact |-> "positive"] >>,
        explanation_available |-> Some(TRUE) ] }

\* Bounded QSE reports.  Each family varies the fields one derivation reads and
\* leaves the others absent.
EmptyReport ==
    [ credit_score |-> None, default_probability |-> None, risk_level |-> None,
      risk_analysis |-> None, anonymized_peer_default_rate |-> None, final_risk_level |-> None,
      affordability_buffer_ratio |-> None, residual_income_ratio |-> None,
      cash_buffer_days |-> None, overdraft_usage_days_90d |-> None,
      debt_to_income_ratio |-> None, delinquency_30d_count_12m |-> None,
      delinquency_60d_count_12m |-> None, delinquency_90d_count_12m |-> None,
      behavioral_consistency_score |-> None, conscientiousness_score |-> None,
      digital_behavior_intelligence |-> None, savings_behavior_score |-> None,
      payment_discipline_score |-> None,
      residual_income_etb |-> None, debt_service_to_income_ratio_dsti |-> None,
      kyc_level |-> None, fayda_verification_status |-> None,
      pep_or_sanctions_hit_flag |-> None, data_quality_score |-> None ]

\* n hundredths, n halves, as fixed-point numbers
Pct(n) == Num((n * Scale) \div 100)

Halves(n) == Num((n * Scale) \div 2)

\* credit scores in half points: -50, 299.5, 300.5, 700, 849.5, 850.5, 1200, and NaN
CreditScoreValues == {Halves(n) : n \in {-100, 599, 601, 1400, 1699, 1701, 2400}} \cup {NaN}

ProbabilityValues == {Pct(n) : n \in {-50, 1, 5, 10, 20, 25, 40, 100, 300}} \cup {NaN}

RatioValues ==
    {Pct(n) : n \in {-50, 0, 25, 100, 250}} \cup {Num(1000 * Scale), NaN, Bool(TRUE), NumStr(Scale \div 2), BadStr}

DayValues ==
    {Num(n * Scale) : n \in {-30, 0, 45, 90, 400}} \cup {NaN, Bool(TRUE), NumStr(10 * Scale), BadStr}

CountValues == {Num(n * Scale) : n \in {-3, 0, 1, 5}} \cup {NaN, BadStr}

SignalValues == {Num(n * Scale) : n \in {-20, 80, 150}} \cup {NaN, BadStr}

RiskLevelValues ==
    { Str(<<>>), Str(<<" ","L","o","w"," ">>), Str(<<"H","I","G","H">>),
      Str(<<"u","n","k","n","o","w","n">>) }

ScoreReports ==
    { [EmptyReport EXCEPT !.credit_score = c, !.default_probability = d, !.risk_analysis = ra,
                          !.anonymized_peer_default_rate = p, !.risk_level = l,
                          !.final_risk_level = g] :
        c \in Opt(CreditScoreValues), d \in Opt(ProbabilityValues),
        ra \in Opt([default_probability : {None, Some(Pct(40))}]),
        p \in Opt({Pct(12), Bool(TRUE), BadStr}),
        l \in Opt(RiskLevelValues), g \in Opt({Str(s_medium), NotStr}) }

CapacityReports ==
    { [EmptyReport EXCEPT !.affordability_buffer_ratio = b, !.residual_income_ratio = r] :
        b \in Opt(RatioValues), r \in Opt(RatioValues) }

LiquidityReports ==
    { [EmptyReport EXCEPT !.cash_buffer_days = d, !.overdraft_usage_days_90d = o] :
        d \in Opt(DayValues), o \in Opt(DayValues) }

CreditReports ==
    { [EmptyReport EXCEPT !.debt_to_income_ratio = d, !.delinquency_30d_count_12m = a,
                          !.delinquency_60d_count_12m = b, !.delinquency_90d_count_12m = c] :
        d \in Opt(RatioValues), a \in Opt(CountValues), b \in Opt(CountValues),
        c \in Opt(CountValues) }

CharacterReports ==
    { [EmptyReport EXCEPT !.behavioral_consistency_score = a, !.conscientiousness_score = b,
                          !.digital_behavior_intelligence = c, !.savings_behavior_score = d,
                          !.payment_discipline_score = e] :
        a \in Opt(SignalValues), b \in Opt(SignalValues), c \in Opt(SignalValues),
        d \in Opt(SignalValues), e \in Opt(SignalValues) }

---------------------------------------------------------------------------
(* AI client (gemini_client.py): model discovery, candidate selection, enum   *)
(* normalisation and error classification.  Model names, error messages and *)
(* final_recommendation values are character sequences.                     *)

\* "models/"
s_models == <<"m","o","d","e","l","s","/">>

\* the default of GEMINI_MODEL: "gemini-1.5-pro"
s_gemini_15_pro == <<"g","e","m","i","n","i","-","1",".","5","-","p","r","o">>

\* "models/gemini-1.5-pro"
m_gemini_15_pro == <<"m","o","d","e","l","s","/","g","e","m","i","n","i","-","1",".","5","-","p","r","o">>

\* "models/gemini-2.5-pro"
m_gemini_25_pro == <<"m","o","d","e","l","s","/","g","e","m","i","n","i","-","2",".","5","-","p","r","o">>

\* "models/gemini-pro-latest"
m_gemini_pro_latest == <<"m","o","d","e","l","s","/","g","e","m","i","n","i","-","p","r","o","-","l","a","t","e","s","t">>

\* "models/gemini-2.5-flash"
m_gemini_25_flash == <<"m","o","d","e","l","s","/","g","e","m","i","n","i","-","2",".","5","-","f","l","a","s","h">>

\* "models/gemini-2.0-flash-lite"
m_gemini_20_flash_lite == <<"m","o","d","e","l","s","/","g","e","m","i","n","i","-","2",".","0","-","f","l","a","s","h","-","l","i","t","e">>

pro_tokens ==
    << <<"g","e","m","i","n","i","-","2",".","5","-","p","r","o">>,
       <<"g","e","m","i","n","i","-","p","r","o","-","l","a","t","e","s","t">>,
       <<"g","e","m","i","n","i","-","2",".","0","-","p","r","o">>,
       <<"g","e","m","i","n","i","-","p","r","o">> >>

flash_tokens ==
    << <<"g","e","m","i","n","i","-","2",".","5","-","f","l","a","s","h">>,
       <<"g","e","m","i","n","i","-","f","l","a","s","h","-","l","a","t","e","s","t">>,
       <<"g","e","m","i","n","i","-","2",".","0","-","f","l","a","s","h">>,
       <<"g","e","m","i","n","i","-","2",".","0","-","f","l","a","s","h","-","0","0","1">>,
       <<"g","e","m","i","n","i","-","2",".","0","-","f","l","a","s","h","-","l","i","t","e">>,
       <<"g","e","m","i","n","i","-","f","l","a","s","h">> >>

\* str.startswith
StartsWith(s, p) == Len(s) >= Len(p) /\ SubSeq(s, 1, Len(p)) = p

\* x in list
InSeq(x, s) == \E i \in DOMAIN s : s[i] = x

\* configured_full: the configured model name with the "models/" prefix
configured_full(configured_model) ==
    IF StartsWith(configured_model, s_models) THEN configured_model
    ELSE s_models \o configured_model

\* find_first_available: tokens in order, and for each token the available
\* names in order; the first name that contains the token
find_first_available(tokens, available) ==
    LET hits == {h \in (DOMAIN tokens) \X (DOMAIN available) :
                     Contains(tokens[h[1]], available[h[2]])}
    IN  IF hits = {} THEN None
        ELSE LET first == CHOOSE h \in hits :
                              \A g \in hits : h[1] < g[1] \/ (h[1] = g[1] /\ h[2] <= g[2])
             IN  Some(available[first[2]])

\* if c and c not in candidates: candidates.append(c)
AppendNew(cands, c) ==
    IF ~IsNone(c) /\ Get(c) # <<>> /\ ~InSeq(Get(c), cands) THEN Append(cands, Get(c)) ELSE cands

\* the candidate list: the configured model if available, then the pro pick,
\* then the flash pick
Candidates(configured_model, available) ==
    LET c0 == IF InSeq(configured_full(configured_model), available)
              THEN <<configured_full(configured_model)>> ELSE <<>>
        c1 == AppendNew(c0, find_first_available(pro_tokens, available))
    IN  AppendNew(c1, find_first_available(flash_tokens, available))

\* one more attempt than the code allows: a plausible slip
MaxRetriesOffByOne == 3 + 1

max_retries == 3

\* 2 ** attempt
BackoffSeconds(n) == 2 ^ n

\* "not found"
s_not_found == <<"n","o","t"," ","f","o","u","n","d">>

\* "not supported"
s_not_supported == <<"n","o","t"," ","s","u","p","p","o","r","t","e","d">>

\* "404 models/"
s_404_models == <<"4","0","4"," ","m","o","d","e","l","s","/">>

\* "Model does not support generateContent"
s_no_generate_content == <<"M","o","d","e","l"," ","d","o","e","s"," ","n","o","t"," ","s","u","p","p","o","r","t"," ","g","e","n","e","r","a","t","e","C","o","n","t","e","n","t">>

\* the test with the "404 models/" marker alone: a plausible slip
IsNotFoundMessage404Only(msg) == Contains(s_404_models, msg)

\* the test on str(me) that sends the loop to the next candidate
IsNotFoundMessage(msg) ==
    \/ Contains(s_not_found, msg)
    \/ Contains(s_not_supported, msg)
    \/ Contains(s_404_models, msg)
    \/ Contains(s_no_generate_content, msg)

\* "Missing GEMINI_API_KEY"
e_missing_key == <<"M","i","s","s","i","n","g"," ","G","E","M","I","N","I","_","A","P","I","_","K","E","Y">>

\* "No supported Gemini models available to this API key."
e_no_models == <<"N","o"," ","s","u","p","p","o","r","t","e","d"," ","G","e","m","i","n","i"," ","m","o","d","e","l","s"," ","a","v","a","i","l","a","b","l","e"," ","t","o"," ","t","h","i","s"," ","A","P","I"," ","k","e","y",".">>

\* "Gemini call failed"
e_gemini_call_failed == <<"G","e","m","i","n","i"," ","c","a","l","l"," ","f","a","i","l","e","d">>

\* "Invalid JSON from Gemini: "
s_invalid_json == <<"I","n","v","a","l","i","d"," ","J","S","O","N"," ","f","r","o","m"," ","G","e","m","i","n","i",":"," ">>

\* "; raw="
s_raw == <<";"," ","r","a","w","=">>

\* json.loads on text that is no JSON: "Expecting value"
e_expecting_value == <<"E","x","p","e","c","t","i","n","g"," ","v","a","l","u","e">>

\* pydantic on an object that does not fit the schema: "validation error"
e_validation_error == <<"v","a","l","i","d","a","t","i","o","n"," ","e","r","r","o","r">>

\* DownstreamError(f"Invalid JSON from Gemini: {e}; raw={data[:300]}")
InvalidJsonMessage(e, data) ==
    s_invalid_json \o e \o s_raw \o SubSeq(data, 1, IF Len(data) < 300 THEN Len(data) ELSE 300)

\* str(last_err) if last_err else "Gemini call failed", with the original message lost: a plausible slip
DownstreamErrorGeneric(err) == e_gemini_call_failed

\* str(last_err) if last_err else "Gemini call failed" (exceptions are truthy)
DownstreamErrorMessage(err) == IF IsNone(err) THEN e_gemini_call_failed ELSE Get(err)

\* "Approve"
r_Approve == <<"A","p","p","r","o","v","e">>

\* "Approve with Conditions"
r_Approve_with_Conditions == <<"A","p","p","r","o","v","e"," ","w","i","t","h"," ","C","o","n","d","i","t","i","o","n","s">>

\* "Manual Review"
r_Manual_Review == <<"M","a","n","u","a","l"," ","R","e","v","i","e","w">>

\* "Decline"
r_Decline == <<"D","e","c","l","i","n","e">>

FinalRecommendations == {r_Approve, r_Approve_with_Conditions, r_Manual_Review, r_Decline}

\* the synonym table of _normalize_enums: <<key, canonical literal>>
mapping ==
    { <<<<"a","p","p","r","o","v","e">>, r_Approve>>,
      <<<<"a","p","p","r","o","v","e","d">>, r_Approve>>,
      <<<<"a","p","p","r","o","v","a","l">>, r_Approve>>,
      <<<<"a","p","p","r","o","v","e"," ","l","o","a","n"," ","a","p","p","l","i","c","a","t","i","o","n">>, r_Approve>>,
      <<<<"a","p","p","r","o","v","e"," ","a","p","p","l","i","c","a","t","i","o","n">>, r_Approve>>,
      <<<<"a","p","p","r","o","v","e"," ","w","i","t","h"," ","c","o","n","d","i","t","i","o","n","s">>, r_Approve_with_Conditions>>,
      <<<<"a","p","p","r","o","v","e","d"," ","w","i","t","h"," ","c","o","n","d","i","t","i","o","n","s">>, r_Approve_with_Conditions>>,
      <<<<"c","o","n","d","i","t","i","o","n","a","l"," ","a","p","p","r","o","v","e">>, r_Approve_with_Conditions>>,
      <<<<"a","p","p","r","o","v","e"," ","w","i","t","h"," ","c","o","n","d","i","t","i","o","n">>, r_Approve_with_Conditions>>,
      <<<<"m","a","n","u","a","l"," ","r","e","v","i","e","w">>, r_Manual_Review>>,
      <<<<"n","e","e","d","s"," ","m","a","n","u","a","l"," ","r","e","v","i","e","w">>, r_Manual_Review>>,
      <<<<"r","e","f","e","r"," ","t","o"," ","u","n","d","e","r","w","r","i","t","e","r">>, r_Manual_Review>>,
      <<<<"u","n","d","e","r","w","r","i","t","e","r"," ","r","e","v","i","e","w">>, r_Manual_Review>>,
      <<<<"d","e","c","l","i","n","e">>, r_Decline>>,
      <<<<"r","e","j","e","c","t","e","d">>, r_Decline>>,
      <<<<"r","e","j","e","c","t">>, r_Decline>>,
      <<<<"d","o"," ","n","o","t"," ","a","p","p","r","o","v","e">>, r_Decline>> }

\* _normalize_enums without the lower(): a plausible slip
NormalizeEnumsCaseSensitive(val) ==
    IF IsNone(val) \/ Get(val).t # "s" THEN val
    ELSE LET s == Strip(Get(val).s)
         IN  IF \E e \in mapping : e[1] = s
             THEN Some(Str((CHOOSE e \in mapping : e[1] = s)[2]))
             ELSE val

\* _normalize_enums on the final_recommendation of a payload: a str whose
\* strip().lower() is a key of the table is replaced, anything else is kept
_normalize_enums(val) ==
    IF IsNone(val) \/ Get(val).t # "s" THEN val
    ELSE LET s == Lower(Strip(Get(val).s))
         IN  IF \E e \in mapping : e[1] = s
             THEN Some(Str((CHOOSE e \in mapping : e[1] = s)[2]))
             ELSE val

\* QAAQualitativeReport.model_validate without the Literal check: a plausible slip
ValidateAnyRecommendation(obj) ==
    /\ obj.complete
    /\ ~IsNone(obj.final_recommendation)
    /\ Get(obj.final_recommendation).t = "s"

\* QAAQualitativeReport.model_validate checking final_recommendation only, the
\* other required fields defaulted: a plausible slip
ValidateRecommendationOnly(obj) ==
    /\ ~IsNone(obj.final_recommendation)
    /\ Get(obj.final_recommendation).t = "s"
    /\ Get(obj.final_recommendation).s \in FinalRecommendations

\* QAAQualitativeReport.model_validate: the required fields are present and
\* final_recommendation is one of the four literals
model_validate(obj) ==
    /\ obj.complete
    /\ ~IsNone(obj.final_recommendation)
    /\ Get(obj.final_recommendation).t = "s"
    /\ Get(obj.final_recommendation).s \in FinalRecommendations

---------------------------------------------------------------------------
(* QSE pipeline: the fallback synthesizer (main.py, synthesize_fallback)    *)

\* a JSON null stored under a key, where the code tells it from an absent key
Null == [k |-> "null", v |-> 0]

\* x < y and x <= y between a JSON value and a float raise TypeError on a str
\* and on None
CompareRaises(x) == x.k \in {"numstr", "str", "null"}

\* Python truthiness of a JSON value: 0, 0.0, False and None are falsy, NaN and
\* a non-empty str are truthy
ValueTruthy(x) ==
    IF x.k \in {"num", "bool"} THEN x.v # 0
    ELSE x.k # "null"

\* a <= b: False when either is NaN
FLe(a, b) == ~IsNaN(a) /\ ~IsNaN(b) /\ a.v <= b.v

\* "COMPLIANT"
s_COMPLIANT == <<"C","O","M","P","L","I","A","N","T">>

\* "NON-COMPLIANT"
s_NON_COMPLIANT == <<"N","O","N","-","C","O","M","P","L","I","A","N","T">>

\* "NON-COMPLIANT: Policy thresholds not met or KYC/Fayda issues"
s_NON_COMPLIANT_policy == <<"N","O","N","-","C","O","M","P","L","I","A","N","T",":"," ","P","o","l","i","c","y"," ","t","h","r","e","s","h","o","l","d","s"," ","n","o","t"," ","m","e","t"," ","o","r"," ","K","Y","C","/","F","a","y","d","a"," ","i","s","s","u","e","s">>

\* the text fields of a report the model wrote
s_model_text == <<"(","m","o","d","e","l"," ","t","e","x","t",")">>

\* aff.get("debt_service_to_income_ratio_dsti", 1)
Dsti(q) ==
    IF IsNone(q.debt_service_to_income_ratio_dsti) THEN One
    ELSE Get(q.debt_service_to_income_ratio_dsti)

\* (pep_hit is False) and (kyc in ("Enhanced", "Standard")) and (fayda == "Verified")
IdentityClear(q) ==
    /\ q.pep_or_sanctions_hit_flag = Some(Bool(FALSE))
    /\ q.kyc_level \in {Some("Enhanced"), Some("Standard")}
    /\ q.fayda_verification_status = Some("Verified")

\* aff.get(key) is None: the key is absent or holds a JSON null
IsAbsent(o) == IsNone(o) \/ Get(o) = Null

\* dti is not None and dti < 0.35
LowDti(q) ==
    /\ ~IsAbsent(q.debt_to_income_ratio)
    /\ FLt(Float(Get(q.debt_to_income_ratio)), Pct(35))

\* the comparisons of synthesize_fallback that raise TypeError, in the order
\* "and" evaluates them
FallbackRaises(q) ==
    \/ IdentityClear(q) /\ CompareRaises(Dsti(q))
    \/ ~IsAbsent(q.debt_to_income_ratio) /\ CompareRaises(Get(q.debt_to_income_ratio))
    \/ /\ LowDti(q)
       /\ ~IsNone(q.residual_income_etb)
       /\ ValueTruthy(Get(q.residual_income_etb))
       /\ CompareRaises(Get(q.residual_income_etb))

\* synthesize_fallback stamping the summary with os.getenv("GEMINI_MODEL"), as
\* the handler does for provenance_run_ids: a plausible slip
SynthesizeFallbackStamped(q) ==
    IF FallbackRaises(q) THEN None
    ELSE LET compliant == IdentityClear(q) /\ FLe(Float(Dsti(q)), Pct(35))
             residual_income ==
                 IF ~IsNone(q.residual_income_etb) /\ ValueTruthy(Get(q.residual_income_etb))
                 THEN Float(Get(q.residual_income_etb)) ELSE Zero
         IN  Some([ final_recommendation |->
                        IF /\ LowDti(q)
                           /\ FLt(Num(5000 * Scale), residual_income)
                           /\ q.fayda_verification_status = Some("Verified")
                        THEN r_Approve_with_Conditions ELSE r_Manual_Review,
                    nbe_compliance_summary |->
                        (IF compliant THEN s_COMPLIANT ELSE s_NON_COMPLIANT_policy)
                            \o <<" ">> \o GEMINI_MODEL ])

\* synthesize_fallback: None when it raises, else the report
synthesize_fallback(q) ==
    IF FallbackRaises(q) THEN None
    ELSE LET compliant == IdentityClear(q) /\ FLe(Float(Dsti(q)), Pct(35))
             residual_income ==
                 IF ~IsNone(q.residual_income_etb) /\ ValueTruthy(Get(q.residual_income_etb))
                 THEN Float(Get(q.residual_income_etb)) ELSE Zero
         IN  Some([ final_recommendation |->
                        IF /\ LowDti(q)
                           /\ FLt(Num(5000 * Scale), residual_income)
                           /\ q.fayda_verification_status = Some("Verified")
                        THEN r_Approve_with_Conditions ELSE r_Manual_Review,
                    nbe_compliance_summary |->
                        IF compliant THEN s_COMPLIANT ELSE s_NON_COMPLIANT_policy ])

---------------------------------------------------------------------------
(* AI client: what a model call can come back with.  An outcome is an       *)
(* exception of the SDK (kind "error", its message) or a response (kind     *)
(* "text": the text, whether json.loads parses it, and the parsed object).  *)

\* "404 models/x is not found"
e_not_found == <<"4","0","4"," ","m","o","d","e","l","s","/","x"," ","i","s"," ","n","o","t"," ","f","o","u","n","d">>

\* "generateContent is not supported"
e_not_supported == <<"g","e","n","e","r","a","t","e","C","o","n","t","e","n","t"," ","i","s"," ","n","o","t"," ","s","u","p","p","o","r","t","e","d">>

\* "503 unavailable"
e_unavailable == <<"5","0","3"," ","u","n","a","v","a","i","l","a","b","l","e">>

\* str(asyncio.TimeoutError()) is the empty string
e_timeout == <<>>

\* "Sorry"
t_sorry == <<"S","o","r","r","y">>

\* "{}"
t_empty_object == <<"{","}">>

\* '{"error": "model not found"}'
t_error_object == <<"{","\"","e","r","r","o","r","\"",":"," ","\"","m","o","d","e","l"," ","n","o","t"," ","f","o","u","n","d","\"","}">>

\* '{"final_recommendation": "Approve"}'
t_partial == <<"{","\"","f","i","n","a","l","_","r","e","c","o","m","m","e","n","d","a","t","i","o","n","\"",":"," ","\"","A","p","p","r","o","v","e","\"","}">>

\* "{...}"
t_report == <<"{",".",".",".","}">>

\* "approved"
a_approved == <<"a","p","p","r","o","v","e","d">>

\* " REJECTED "
a_REJECTED_padded == <<" ","R","E","J","E","C","T","E","D"," ">>

\* "Conditional Approve"
a_Conditional_Approve == <<"C","o","n","d","i","t","i","o","n","a","l"," ","A","p","p","r","o","v","e">>

\* "Maybe"
a_Maybe == <<"M","a","y","b","e">>

\* final_recommendation values the model can put in its object
AIRecommendations ==
    { Str(r_Approve), Str(r_Manual_Review), Str(a_approved), Str(a_REJECTED_padded),
      Str(a_Conditional_Approve), Str(a_Maybe), NotStr }

NoObject == [complete |-> FALSE, final_recommendation |-> None, explainability |-> None]

ErrorOutcome(msg) == [kind |-> "error", msg |-> msg, text |-> <<>>, parses |-> FALSE, obj |-> NoObject]

TextOutcome(text, parses, obj) ==
    [kind |-> "text", msg |-> <<>>, text |-> text, parses |-> parses, obj |-> obj]

ErrorOutcomes == {ErrorOutcome(m) : m \in {e_not_found, e_not_supported, e_unavailable, e_timeout}}

\* text that is no JSON, an object that lacks the fields, an error object, an
\* object with a recommendation but no other field, and complete reports
NarrativeOutcomes ==
    { TextOutcome(t_sorry, FALSE, NoObject),
      TextOutcome(t_empty_object, TRUE, NoObject),
      TextOutcome(t_error_object, TRUE, NoObject),
      TextOutcome(t_partial, TRUE, [complete |-> FALSE, final_recommendation |-> Some(Str(r_Approve)),
                                    explainability |-> None]) }
    \cup { TextOutcome(t_report, TRUE, [complete |-> TRUE, final_recommendation |-> Some(r),
                                        explainability |-> None]) : r \in AIRecommendations }

\* every field of ExplainabilityExtended is optional: an object fails the
\* schema only by a value of the wrong type (explainability None here)
ExplainabilityOutcomes ==
    { TextOutcome(t_sorry, FALSE, NoObject),
      TextOutcome(t_error_object, TRUE, NoObject) }
    \cup { TextOutcome(t_report, TRUE, [complete |-> TRUE, final_recommendation |-> None,
                                        explainability |-> Some(e)]) : e \in GeminiExplainabilities }

ModelOutcomes(f) ==
    ErrorOutcomes \cup (IF f = "narrative" THEN NarrativeOutcomes ELSE ExplainabilityOutcomes)

\* the object after _normalize_enums
Normalized(obj) == [obj EXCEPT !.final_recommendation = _normalize_enums(@)]

\* the exception one model call ends with, None when it returns a value
CallError(f, o) ==
    IF o.kind = "error" THEN Some(o.msg)
    ELSE IF ~o.parses THEN Some(InvalidJsonMessage(e_expecting_value, o.text))
    ELSE IF f = "narrative" /\ ~model_validate(Normalized(o.obj))
    THEN Some(InvalidJsonMessage(e_validation_error, o.text))
    ELSE IF f = "explainability" /\ IsNone(o.obj.explainability)
    THEN Some(InvalidJsonMessage(e_validation_error, o.text))
    ELSE None

\* the QAAQualitativeReport a valid response yields (the text fields are the model's)
ReportOf(o) ==
    [ final_recommendation   |-> Get(Normalized(o.obj).final_recommendation).s,
      nbe_compliance_summary |-> s_model_text ]

---------------------------------------------------------------------------
(* AI client: run_gemini and run_gemini_explainability as a state machine   *)
(* over (attempt, candidate).  pc is "run_gemini" on entry, "generate"      *)
(* before a model call, "sleep" in asyncio.sleep, and "returned" or         *)
(* "raised" on exit.                                                        *)

\* discover_supported_models and the candidate list
GeminiDiscover ==
    /\ pc = "run_gemini"
    /\ LET found == IF IsNone(listed) THEN <<>> ELSE Candidates(GEMINI_MODEL, Get(listed))
       IN  IF found = <<>>
           THEN /\ last_err' = Some(IF IsNone(listed) THEN e_missing_key ELSE e_no_models)
                /\ pc' = "raised"
                /\ UNCHANGED <<candidates, attempt, model_idx>>
           ELSE /\ candidates' = found
                /\ attempt' = 1
                /\ model_idx' = 1
                /\ last_err' = None
                /\ pc' = "generate"
    /\ UNCHANGED <<fn, calls, sleeps, resp, qaa, expl>>
    /\ UNCHANGED <<envVars, auditVars, body, analysis_id, outcome, response, qse, extended, gatewayVars>>

\* one model call and what the loops do with its result
GeminiCall ==
    /\ pc = "generate"
    /\ calls' = calls + 1
    /\ \E o \in ModelOutcomes(fn) :
         LET err == CallError(fn, o)
         IN  /\ resp' = IF o.kind = "text" THEN Some(o) ELSE resp
             /\ IF IsNone(err)
                THEN /\ IF fn = "narrative"
                        THEN qaa' = Some(ReportOf(o)) /\ UNCHANGED expl
                        ELSE expl' = o.obj.explainability /\ UNCHANGED qaa
                     /\ pc' = "returned"
                     /\ UNCHANGED <<attempt, model_idx, last_err>>
                ELSE /\ last_err' = err
                     /\ UNCHANGED <<qaa, expl>>
                     /\ IF IsNotFoundMessage(Get(err))
                        THEN IF model_idx < Len(candidates)
                             THEN model_idx' = model_idx + 1 /\ UNCHANGED <<attempt, pc>>
                             ELSE IF attempt < max_retries
                             THEN attempt' = attempt + 1 /\ model_idx' = 1 /\ UNCHANGED pc
                             ELSE pc' = "raised" /\ UNCHANGED <<attempt, model_idx>>
                        ELSE /\ pc' = IF attempt < max_retries THEN "sleep" ELSE "raised"
                             /\ UNCHANGED <<attempt, model_idx>>
    /\ UNCHANGED <<fn, candidates, sleeps>>
    /\ UNCHANGED <<envVars, auditVars, body, analysis_id, outcome, response, qse, extended, gatewayVars>>

\* await asyncio.sleep(2 ** attempt), then the next attempt
GeminiBackoff ==
    /\ pc = "sleep"
    /\ sleeps' = Append(sleeps, BackoffSeconds(attempt))
    /\ attempt' = attempt + 1
    /\ model_idx' = 1
    /\ pc' = "generate"
    /\ UNCHANGED <<fn, candidates, last_err, calls, resp, qaa, expl>>
    /\ UNCHANGED <<envVars, auditVars, body, analysis_id, outcome, response, qse, extended, gatewayVars>>

ConfiguredModels == {s_gemini_15_pro, m_gemini_25_pro}

AvailableLists ==
    { <<>>,
      <<m_gemini_15_pro>>,
      <<m_gemini_20_flash_lite>>,
      <<m_gemini_25_pro, m_gemini_25_flash>>,
      <<m_gemini_25_flash, m_gemini_pro_latest, m_gemini_25_pro>>,
      <<m_gemini_15_pro, m_gemini_25_pro, m_gemini_25_flash>> }

\* one call of run_gemini or run_gemini_explainability, for any configured
\* model and any list of available models
ClientInit ==
    /\ MOCK_MODE = FALSE
    /\ db_enabled = FALSE
    /\ GEMINI_MODEL \in ConfiguredModels
    /\ listed \in Opt(AvailableLists)
    /\ records = <<>>
    /\ audit_raised = {}
    /\ pc = "run_gemini"
    /\ body = None
    /\ analysis_id = Some(1)
    /\ qaa = None
    /\ outcome = None
    /\ response = None
    /\ fn \in {"narrative", "explainability"}
    /\ candidates = <<>>
    /\ attempt = 0
    /\ model_idx = 0
    /\ last_err = None
    /\ calls = 0
    /\ sleeps = <<>>
    /\ resp = None
    /\ qse = None
    /\ expl = None
    /\ extended = None
    /\ gateway_input = None
    /\ decisions = None

ClientNext == GeminiDiscover \/ GeminiCall \/ GeminiBackoff

SpecClient == ClientInit /\ [][ClientNext]_vars

\* the event loop resumes the client after every await
FairSpecClient == SpecClient /\ WF_vars(ClientNext)

---------------------------------------------------------------------------
(* The specifications of the pure derivations keep the handler and the AI   *)
(* client at rest.                                                          *)

ClientIdle ==
    /\ fn = ""
    /\ candidates = <<>>
    /\ attempt = 0
    /\ model_idx = 0
    /\ last_err = None
    /\ calls = 0
    /\ sleeps = <<>>
    /\ resp = None

HandlerIdle ==
    /\ records = <<>>
    /\ audit_raised = {}
    /\ pc = "idle"
    /\ body = None
    /\ analysis_id = None
    /\ qaa = None
    /\ outcome = None
    /\ response = None

DefaultEnvironment ==
    /\ MOCK_MODE = FALSE
    /\ db_enabled = FALSE
    /\ GEMINI_MODEL = s_gemini_15_pro
    /\ listed = None

ScoresInit ==
    /\ \/ /\ qse \in ScoreReports \cup CapacityReports \cup LiquidityReports \cup CreditReports
          /\ expl = Some(MockExplainability)
       \/ /\ qse \in CharacterReports
          /\ expl \in {Some(e) : e \in {MockExplainability} \cup GeminiExplainabilities}
    /\ extended = None
    /\ gateway_input = None
    /\ decisions = None
    /\ DefaultEnvironment
    /\ HandlerIdle
    /\ ClientIdle

\* analyze, from the default-probability fallbacks to the risk dimensions
Derive ==
    /\ IsNone(extended)
    /\ extended' = Some(Extended(qse, Get(expl).feature_importance))
    /\ pc = "idle"
    /\ UNCHANGED <<qse, expl, gatewayVars, envVars, auditVars, requestVars, clientVars>>

ScoresNext == Derive

SpecScores == ScoresInit /\ [][ScoresNext]_vars

\* C2: for any input credit_score and any default probability, the credit_score
\* of the response (top level and in the scores block) is null or an integer
\* in [300, 850].
C2_CreditScoreRange ==
    ~IsNone(extended) =>
        /\ Get(extended).credit_score \in Opt(300..850)
        /\ Get(extended).scores.credit_score \in Opt(300..850)

\* C2 witness: an input score above 1000 has been consolidated, as has a score
\* estimated from an out-of-range default probability.
C2_Witness ==
    /\ ~IsNone(extended)
    /\ \/ qse.credit_score = Some(Halves(2400)) /\ Get(extended).credit_score = Some(850)
       \/ /\ qse.credit_score = None /\ qse.default_probability = Some(Pct(300))
          /\ Get(extended).scores.credit_score = Some(300)

InUnitInterval(o) == IsNone(o) \/ (Get(o).k = "num" /\ 0 <= Get(o).v /\ Get(o).v <= Scale)

\* C3: each of capacity_risk, liquidity_risk, credit_risk and character_risk of
\* the response is null or a value in [0, 1], whatever the input fields carry.
C3_RiskDimensionsRange ==
    ~IsNone(extended) =>
        LET rd == Get(extended).risk_dimensions
        IN  /\ InUnitInterval(rd.capacity_risk)
            /\ InUnitInterval(rd.liquidity_risk)
            /\ InUnitInterval(rd.credit_risk)
            /\ InUnitInterval(rd.character_risk)

\* C3 witness: a negative buffer ratio, whose raw capacity exceeds 1, has been
\* derived and clamped to 1.
C3_Witness ==
    /\ ~IsNone(extended)
    /\ qse.affordability_buffer_ratio = Some(Pct(-50))
    /\ qse.residual_income_ratio = Some(Pct(0))
    /\ Get(extended).risk_dimensions.capacity_risk = Some(One)

---------------------------------------------------------------------------
(* Gateway analyzer: _determine_decisions *)

\* Python truthiness of an Optional[str] that is only passed through
Truthy(o) == ~IsNone(o) /\ Get(o) # ""

\* "a or b" on an Optional[str] and a default
OrElse(o, d) == IF Truthy(o) THEN Get(o) ELSE d

s_pass == <<"p","a","s","s">>

s_LOW == <<"L","O","W">>

s_LOW_RISK == <<"L","O","W"," ","R","I","S","K">>

s_MEDIUM == <<"M","E","D","I","U","M">>

s_MEDIUM_RISK == <<"M","E","D","I","U","M"," ","R","I","S","K">>

\* risk decision by thresholding risk_analysis.risk_level
RiskDecision(gi) ==
    IF IsNone(gi.risk_analysis) THEN None
    ELSE LET risk_level == Upper(Get(gi.risk_analysis).risk_level)
         IN  IF risk_level \in {s_LOW, s_LOW_RISK} THEN Some("approve")
             ELSE IF risk_level \in {s_MEDIUM, s_MEDIUM_RISK} THEN Some("approve_with_conditions")
             ELSE Some("requires_review")

\* compliance decision: compliant iff overall_compliance.lower() == "pass"
ComplianceDecision(gi) ==
    IF IsNone(gi.nbe_compliance_status) THEN None
    ELSE Some(Lower(Get(gi.nbe_compliance_status).overall_compliance) = s_pass)

FraudBlocks(gi) ==
    ~IsNone(gi.fraud_detection_result) /\ Get(gi.fraud_detection_result).block_transaction

FraudNeedsReview(gi) ==
    ~IsNone(gi.fraud_detection_result) /\ Get(gi.fraud_detection_result).require_manual_review

ComplianceFails(gi) ==
    ~IsNone(gi.nbe_compliance_status)
    /\ Lower(Get(gi.nbe_compliance_status).overall_compliance) # s_pass

\* A plausible slip: the compliance override tested before the fraud overrides.
DetermineDecisionsComplianceFirst(gi) ==
    LET base == [final_decision  |-> OrElse(gi.final_decision, "requires_review"),
                 approval_status |-> OrElse(gi.approval_status, "requires_review"),
                 decision_reason |-> OrElse(gi.decision_reason, "Assessment completed"),
                 risk_decision   |-> RiskDecision(gi),
                 compliant       |-> ComplianceDecision(gi)]
    IN  IF ComplianceFails(gi)
        THEN [base EXCEPT !.final_decision = "decline", !.approval_status = "declined",
                          !.decision_reason = "NBE compliance requirements not met"]
        ELSE IF FraudBlocks(gi)
        THEN [base EXCEPT !.final_decision = "decline", !.approval_status = "declined",
                          !.decision_reason = "Transaction blocked due to fraud indicators"]
        ELSE IF FraudNeedsReview(gi)
        THEN [base EXCEPT !.final_decision = "requires_review",
                          !.approval_status = "pending_manual_review"]
        ELSE IF Truthy(gi.final_decision)
        THEN [base EXCEPT !.final_decision = Get(gi.final_decision),
                          !.approval_status = OrElse(gi.approval_status, Get(gi.final_decision))]
        ELSE base

_determine_decisions(gi) ==
    LET base == [final_decision  |-> OrElse(gi.final_decision, "requires_review"),
                 approval_status |-> OrElse(gi.approval_status, "requires_review"),
                 decision_reason |-> OrElse(gi.decision_reason, "Assessment completed"),
                 risk_decision   |-> RiskDecision(gi),
                 compliant       |-> ComplianceDecision(gi)]
    IN  IF FraudBlocks(gi)
        THEN [base EXCEPT !.final_decision = "decline", !.approval_status = "declined",
                          !.decision_reason = "Transaction blocked due to fraud indicators"]
        ELSE IF FraudNeedsReview(gi)
        THEN [base EXCEPT !.final_decision = "requires_review",
                          !.approval_status = "pending_manual_review"]
        ELSE IF ComplianceFails(gi)
        THEN [base EXCEPT !.final_decision = "decline", !.approval_status = "declined",
                          !.decision_reason = "NBE compliance requirements not met"]
        ELSE IF Truthy(gi.final_decision)
        THEN [base EXCEPT !.final_decision = Get(gi.final_decision),
                          !.approval_status = OrElse(gi.approval_status, Get(gi.final_decision))]
        ELSE base

\* Bounded gateway inputs (schema-valid GatewayAssessmentInput records)
FraudResults == [block_transaction : BOOLEAN, require_manual_review : BOOLEAN]

ComplianceStrings ==
    { s_pass, <<"P","A","S","S">>, <<"P","a","s","s">>, <<"f","a","i","l">>,
      <<" ","p","a","s","s">>, <<>> }

RiskLevelStrings ==
    { <<"l","o","w">>, <<"M","e","d","i","u","m">>, s_MEDIUM_RISK, <<"h","i","g","h">> }

DecisionStrings == {"", "approve", "decline"}

GatewayInputs ==
    [ fraud_detection_result : Opt(FraudResults),
      nbe_compliance_status  : Opt([overall_compliance : ComplianceStrings]),
      risk_analysis          : Opt([risk_level : RiskLevelStrings]),
      final_decision         : Opt(DecisionStrings),
      approval_status        : Opt({"approved"}),
      decision_reason        : Opt({"Scored by gateway"}) ]

GatewayInit ==
    /\ gateway_input \in {Some(gi) : gi \in GatewayInputs}
    /\ decisions = None
    /\ qse = None
    /\ expl = None
    /\ extended = None
    /\ DefaultEnvironment
    /\ HandlerIdle
    /\ ClientIdle

\* analyze_gateway_assessment's decision step
DetermineDecisions ==
    /\ IsNone(decisions)
    /\ decisions' = Some(_determine_decisions(Get(gateway_input)))
    /\ pc = "idle"
    /\ UNCHANGED <<gateway_input, scoreVars, envVars, auditVars, requestVars, clientVars>>

GatewayNext == DetermineDecisions

SpecGateway == GatewayInit /\ [][GatewayNext]_vars

---------------------------------------------------------------------------
\* C4: the gateway final decision follows the strict priority fraud block >
\* fraud manual review > compliance failure > explicit input final decision >
\* default requires_review.  (The statement as claimed: the explicit decision
\* counts as given whenever the field is not null.)
C4_PriorityAsClaimed ==
    ~IsNone(decisions) =>
        Get(decisions).final_decision =
            IF FraudBlocks(Get(gateway_input)) THEN "decline"
            ELSE IF FraudNeedsReview(Get(gateway_input)) THEN "requires_review"
            ELSE IF ComplianceFails(Get(gateway_input)) THEN "decline"
            ELSE IF ~IsNone(Get(gateway_input).final_decision) THEN Get(Get(gateway_input).final_decision)
            ELSE "requires_review"

\* C4 (amended): as above, where an explicit final decision counts only when
\* it is a non-empty string; an empty string falls to the default.
C4_Priority ==
    ~IsNone(decisions) =>
        LET gi == Get(gateway_input)
            fraud == gi.fraud_detection_result
            nbe == gi.nbe_compliance_status
            fd == Get(decisions).final_decision
        IN  /\ (fraud # None /\ fraud[1].block_transaction) => fd = "decline"
            /\ (fraud # None /\ ~fraud[1].block_transaction /\ fraud[1].require_manual_review)
                   => fd = "requires_review"
            /\ ((fraud = None \/ (~fraud[1].block_transaction /\ ~fraud[1].require_manual_review))
                /\ nbe # None /\ Lower(nbe[1].overall_compliance) # s_pass)
                   => fd = "decline"
            /\ ((fraud = None \/ (~fraud[1].block_transaction /\ ~fraud[1].require_manual_review))
                /\ (nbe = None \/ Lower(nbe[1].overall_compliance) = s_pass))
                   => fd = (IF gi.final_decision \notin {None, Some("")}
                            THEN gi.final_decision[1] ELSE "requires_review")

\* C4 witness: a blocked transaction with passing compliance and an explicit
\* "approve" has been decided.
C4_Witness ==
    /\ ~IsNone(decisions)
    /\ FraudBlocks(Get(gateway_input))
    /\ ~ComplianceFails(Get(gateway_input))
    /\ Get(gateway_input).final_decision = Some("approve")
    /\ Get(decisions).final_decision = "decline"

---------------------------------------------------------------------------
(* The audit store (db.py).  A record keeps its status and, for the checks, *)
(* the number of times audit_completed or audit_failed has set it.          *)

\* audit_created: session.add(AnalysisRecord(status="created")), commit
audit_created(recs, id) ==
    [i \in (DOMAIN recs) \cup {id} |->
        IF i = id THEN [status |-> "created", error_text |-> None, writes |-> 0] ELSE recs[i]]

\* audit_completed: the record, if there is one, becomes "completed"
audit_completed(recs, id) ==
    IF id \in DOMAIN recs
    THEN [recs EXCEPT ![id] = [@ EXCEPT !.status = "completed", !.writes = @ + 1]]
    ELSE recs

\* audit_failed: the record, if there is one, becomes "failed" with error_text[:2048]
audit_failed(recs, id, error_text) ==
    IF id \in DOMAIN recs
    THEN [recs EXCEPT ![id] =
             [@ EXCEPT !.status = "failed", !.writes = @ + 1,
                       !.error_text = Some(SubSeq(error_text, 1,
                                          IF Len(error_text) < 2048 THEN Len(error_text) ELSE 2048))]]
    ELSE recs

\* an audit write can raise only where there is a database to fail
RaiseChoices == IF db_enabled THEN BOOLEAN ELSE {FALSE}

\* one audit write: without a database a no-op, else it raises and writes
\* nothing, or commits
AuditWrite(name, raised, written) ==
    /\ records' = IF db_enabled /\ ~raised THEN written ELSE records
    /\ audit_raised' = IF raised THEN audit_raised \cup {name} ELSE audit_raised

---------------------------------------------------------------------------
(* The analyze handler (main.py): responses, format detection, validation   *)

\* "Internal server error": the detail of the handler's HTTPException(500)
d_internal_server_error == <<"I","n","t","e","r","n","a","l"," ","s","e","r","v","e","r"," ","e","r","r","o","r">>

\* "Internal Server Error": the framework's answer to an exception no handler caught
d_unhandled == <<"I","n","t","e","r","n","a","l"," ","S","e","r","v","e","r"," ","E","r","r","o","r">>

\* str(e) of the TypeError a comparison raises
e_type_error == <<"'","<","'"," ","n","o","t"," ","s","u","p","p","o","r","t","e","d"," ","b","e","t","w","e","e","n"," ","i","n","s","t","a","n","c","e","s"," ","o","f"," ","'","s","t","r","'"," ","a","n","d"," ","'","f","l","o","a","t","'">>

NoContent ==
    [qaa_report |-> None, explainability |-> None, extended |-> None, decisions |-> None]

\* an HTTPException, or the framework's 500
HttpError(status, detail) == [status |-> status, detail |-> detail, content |-> NoContent]

\* a 200 with its body
HttpOk(content) == [status |-> 200, detail |-> <<>>, content |-> content]

\* try: await audit_x(...) except Exception: log -- with the except forgotten
\* the exception of the write leaves the handler: a plausible slip
AfterAuditWriteUnguarded(raised, primary) ==
    IF raised THEN Some(HttpError(500, d_unhandled)) ELSE primary

\* try: await audit_x(...) except Exception: log -- the handler goes on with
\* what it was about to do (primary: the response to send, None to carry on)
AfterAuditWrite(raised, primary) == primary

\* is_gateway_format: body.get("success") is not None, or the three gateway
\* keys with overall_compliance inside the nbe_compliance_status dict
is_gateway_format(b) ==
    \/ ~IsAbsent(b.success)
    \/ /\ ~IsNone(b.fraud_detection_result)
       /\ ~IsNone(b.product_recommendations)
       /\ ~IsNone(b.nbe_compliance_status)
       /\ ~IsNone(Get(b.nbe_compliance_status).overall_compliance)

\* GatewayAssessmentInput(**body) validates: success, customer_id and
\* request_id are required, as are overall_compliance and risk_level inside
\* their sections
GatewayValid(b) ==
    /\ ~IsNone(b.success) /\ Get(b.success).k = "bool"
    /\ ~IsNone(b.request_id) /\ ~IsNone(b.customer_id)
    /\ IsNone(b.nbe_compliance_status) \/ ~IsNone(Get(b.nbe_compliance_status).overall_compliance)
    /\ IsNone(b.risk_analysis) \/ ~IsNone(Get(b.risk_analysis).risk_level)

\* QSEReportInput(**body) validates: request_id and customer_id are required,
\* and nbe_compliance_status, if given, needs its status literal
QSEValid(b) ==
    /\ ~IsNone(b.request_id) /\ ~IsNone(b.customer_id)
    /\ \/ IsNone(b.nbe_compliance_status)
       \/ Get(b.nbe_compliance_status).status \in {Some("COMPLIANT"), Some("NON_COMPLIANT")}

\* the GatewayAssessmentInput of a valid body (the fields the decisions read)
AsGateway(b) ==
    [ fraud_detection_result |-> b.fraud_detection_result,
      nbe_compliance_status  |->
          IF IsNone(b.nbe_compliance_status) THEN None
          ELSE Some([overall_compliance |-> Get(Get(b.nbe_compliance_status).overall_compliance)]),
      risk_analysis          |->
          IF IsNone(b.risk_analysis) THEN None
          ELSE Some([risk_level |-> Get(Get(b.risk_analysis).risk_level)]),
      final_decision         |-> b.final_decision,
      approval_status        |-> b.approval_status,
      decision_reason        |-> b.decision_reason ]

\* the QSEReportInput of a valid body (the fields the derivations read)
AsQSE(b) ==
    [ b.sections EXCEPT !.risk_analysis =
          IF IsNone(b.risk_analysis) THEN None
          ELSE Some([default_probability |-> Get(b.risk_analysis).default_probability]) ]

\* ProcessingMetadata(data_quality_score=governance.get("data_quality_score"))
\* raises ValidationError on a string that is no number
AssembleRaises(q) ==
    ~IsNone(q.data_quality_score) /\ FloatRaises(Get(q.data_quality_score))

\* str(uuid.uuid4()): an id no record has
NewAnalysisId == Cardinality(DOMAIN records) + 1

\* Request bodies: the envelope keys, and under sections the keys the QSE
\* derivations read
EmptyBody ==
    [ success |-> None, request_id |-> Some("req-1"), customer_id |-> Some("cust-1"),
      fraud_detection_result |-> None, product_recommendations |-> None,
      nbe_compliance_status |-> None, risk_analysis |-> None,
      final_decision |-> None, approval_status |-> None, decision_reason |-> None,
      sections |-> EmptyReport ]

StrongSections ==
    [ EmptyReport EXCEPT !.credit_score = Some(Halves(1400)),
                         !.debt_to_income_ratio = Some(Pct(25)),
                         !.residual_income_etb = Some(Num(8000 * Scale)),
                         !.fayda_verification_status = Some("Verified"),
                         !.kyc_level = Some("Standard"),
                         !.pep_or_sanctions_hit_flag = Some(Bool(FALSE)),
                         !.debt_service_to_income_ratio_dsti = Some(Pct(30)) ]

QSEBodies ==
    { EmptyBody,
      [EmptyBody EXCEPT !.sections = StrongSections],
      [EmptyBody EXCEPT !.sections = [EmptyReport EXCEPT !.debt_to_income_ratio = Some(BadStr)]],
      [EmptyBody EXCEPT !.sections = [StrongSections EXCEPT !.data_quality_score = Some(BadStr)]],
      [EmptyBody EXCEPT !.request_id = None],
      [EmptyBody EXCEPT !.success = Some(Null), !.sections = StrongSections],
      [EmptyBody EXCEPT !.fraud_detection_result =
                            Some([block_transaction |-> FALSE, require_manual_review |-> FALSE]),
                        !.product_recommendations = Some(<<>>)],
      [EmptyBody EXCEPT !.nbe_compliance_status =
                            Some([overall_compliance |-> None, status |-> Some("compliant")])] }

GatewayEnvelope ==
    [ EmptyBody EXCEPT !.fraud_detection_result =
                           Some([block_transaction |-> FALSE, require_manual_review |-> FALSE]),
                       !.product_recommendations = Some(<<>>),
                       !.nbe_compliance_status =
                           Some([overall_compliance |-> Some(s_pass), status |-> None]) ]

GatewayBodies ==
    { [GatewayEnvelope EXCEPT !.success = Some(Bool(TRUE)), !.final_decision = Some("approve")],
      [GatewayEnvelope EXCEPT !.success = Some(Bool(FALSE)),
                              !.fraud_detection_result =
                                  Some([block_transaction |-> TRUE, require_manual_review |-> FALSE])],
      [EmptyBody EXCEPT !.success = Some(Bool(TRUE)), !.customer_id = None],
      [GatewayEnvelope EXCEPT !.success = Some(Null)],
      [GatewayEnvelope EXCEPT !.success = Some(Bool(TRUE)),
                              !.risk_analysis = Some([risk_level |-> Some(s_MEDIUM_RISK),
                                                      default_probability |-> None])],
      [GatewayEnvelope EXCEPT !.success = Some(Bool(TRUE)),
                              !.risk_analysis = Some([risk_level |-> None,
                                                      default_probability |-> None])],
      GatewayEnvelope }

Bodies == QSEBodies \cup GatewayBodies

---------------------------------------------------------------------------
(* The analyze handler as a state machine.  A step runs from one await to   *)
(* the next; pc names the await the handler is at.                          *)

\* analyze up to its first await: format detection, input validation, the
\* analysis id
Analyze ==
    /\ pc = "idle"
    /\ \E b \in Bodies :
         /\ body' = Some(b)
         /\ IF is_gateway_format(b)
            THEN IF GatewayValid(b)
                 THEN /\ gateway_input' = Some(AsGateway(b))
                      /\ analysis_id' = Some(NewAnalysisId)
                      /\ pc' = "gateway_audit_created"
                      /\ UNCHANGED <<qse, response>>
                 ELSE /\ response' = Some(HttpError(422, e_validation_error))
                      /\ pc' = "done"
                      /\ UNCHANGED <<qse, gateway_input, analysis_id>>
            ELSE IF QSEValid(b)
                 THEN /\ qse' = Some(AsQSE(b))
                      /\ analysis_id' = Some(NewAnalysisId)
                      /\ pc' = "audit_created"
                      /\ UNCHANGED <<gateway_input, response>>
                 ELSE /\ response' = Some(HttpError(422, e_validation_error))
                      /\ pc' = "done"
                      /\ UNCHANGED <<qse, gateway_input, analysis_id>>
    /\ UNCHANGED <<envVars, auditVars, clientVars, qaa, outcome, expl, extended, decisions>>

\* await audit_created, then on to the synthesizer or the AI client
AuditCreated ==
    /\ pc = "audit_created"
    /\ \E raised \in RaiseChoices :
         /\ AuditWrite("created", raised, audit_created(records, Get(analysis_id)))
         /\ LET o == AfterAuditWrite(raised, None)
            IN  IF IsNone(o)
                THEN /\ pc' = IF MOCK_MODE THEN "synthesize_fallback" ELSE "run_gemini"
                     /\ fn' = IF MOCK_MODE THEN fn ELSE "narrative"
                     /\ UNCHANGED response
                ELSE /\ response' = o
                     /\ pc' = "done"
                     /\ UNCHANGED fn
    /\ UNCHANGED <<envVars, body, analysis_id, qaa, outcome, scoreVars, gatewayVars>>
    /\ UNCHANGED <<candidates, attempt, model_idx, last_err, calls, sleeps, resp>>

\* mock mode: synthesize_fallback and the mock explainability object; an
\* exception of the synthesizer goes to the "except Exception" handler
SynthesizeFallback ==
    /\ pc = "synthesize_fallback"
    /\ LET r == synthesize_fallback(Get(qse))
       IN  IF IsNone(r)
           THEN /\ last_err' = Some(e_type_error)
                /\ outcome' = Some(HttpError(500, d_internal_server_error))
                /\ pc' = "audit_failed"
                /\ UNCHANGED <<qaa, expl>>
           ELSE /\ qaa' = r
                /\ expl' = Some(MockExplainability)
                /\ pc' = "assemble"
                /\ UNCHANGED <<last_err, outcome>>
    /\ UNCHANGED <<envVars, auditVars, body, analysis_id, response, qse, extended, gatewayVars>>
    /\ UNCHANGED <<fn, candidates, attempt, model_idx, calls, sleeps, resp>>

\* run_gemini returned: on to run_gemini_explainability
NarrativeReturned ==
    /\ pc = "returned"
    /\ fn = "narrative"
    /\ fn' = "explainability"
    /\ candidates' = <<>>
    /\ attempt' = 0
    /\ model_idx' = 0
    /\ last_err' = None
    /\ calls' = 0
    /\ sleeps' = <<>>
    /\ resp' = None
    /\ pc' = "run_gemini"
    /\ UNCHANGED <<envVars, auditVars, body, analysis_id, qaa, outcome, response, scoreVars,
                   gatewayVars>>

\* the narrative failure answered by the synthesizer instead of a 503: the
\* lenient reading of the flag that the handler's comment rules out
NarrativeRaisedFallsBack ==
    /\ pc = "raised"
    /\ fn = "narrative"
    /\ pc' = "synthesize_fallback"
    /\ UNCHANGED <<envVars, auditVars, body, analysis_id, qaa, outcome, response, clientVars,
                   scoreVars, gatewayVars>>

\* run_gemini raised DownstreamError: audit the failure, then 503 with str(e)
NarrativeRaised ==
    /\ pc = "raised"
    /\ fn = "narrative"
    /\ outcome' = Some(HttpError(503, DownstreamErrorMessage(last_err)))
    /\ pc' = "audit_failed"
    /\ UNCHANGED <<envVars, auditVars, body, analysis_id, qaa, response, clientVars, scoreVars,
                   gatewayVars>>

\* run_gemini_explainability raised DownstreamError: audit the failure, then
\* 503 with str(e)
ExplainabilityRaised ==
    /\ pc = "raised"
    /\ fn = "explainability"
    /\ outcome' = Some(HttpError(503, DownstreamErrorMessage(last_err)))
    /\ pc' = "audit_failed"
    /\ UNCHANGED <<envVars, auditVars, body, analysis_id, qaa, response, clientVars, scoreVars,
                   gatewayVars>>

\* the derivations and the extended response, up to await audit_completed;
\* no handler catches what the constructors of this stretch raise
Assemble ==
    /\ pc = "assemble" \/ (pc = "returned" /\ fn = "explainability")
    /\ IF AssembleRaises(Get(qse))
       THEN /\ response' = Some(HttpError(500, d_unhandled))
            /\ pc' = "done"
            /\ UNCHANGED <<extended, outcome>>
       ELSE /\ extended' = Some(Extended(Get(qse), Get(expl).feature_importance))
            /\ outcome' = Some(HttpOk([NoContent EXCEPT !.qaa_report = qaa,
                                                         !.explainability = expl,
                                                         !.extended = extended']))
            /\ pc' = "audit_completed"
            /\ UNCHANGED response
    /\ UNCHANGED <<envVars, auditVars, body, analysis_id, qaa, clientVars, qse, expl, gatewayVars>>

\* await audit_completed, then return extended_model
AuditCompleted ==
    /\ pc = "audit_completed"
    /\ \E raised \in RaiseChoices :
         /\ AuditWrite("completed", raised, audit_completed(records, Get(analysis_id)))
         /\ response' = AfterAuditWrite(raised, outcome)
    /\ pc' = "done"
    /\ UNCHANGED <<envVars, body, analysis_id, qaa, outcome, clientVars, scoreVars, gatewayVars>>

\* await audit_failed(analysis_id, str(e)), then raise the HTTPException
AuditFailed ==
    /\ pc = "audit_failed"
    /\ \E raised \in RaiseChoices :
         /\ AuditWrite("failed", raised,
                       audit_failed(records, Get(analysis_id), DownstreamErrorMessage(last_err)))
         /\ response' = AfterAuditWrite(raised, outcome)
    /\ pc' = "done"
    /\ UNCHANGED <<envVars, body, analysis_id, qaa, outcome, clientVars, scoreVars, gatewayVars>>

\* analyze_gateway: await audit_created
GatewayAuditCreated ==
    /\ pc = "gateway_audit_created"
    /\ \E raised \in RaiseChoices :
         /\ AuditWrite("created", raised, audit_created(records, Get(analysis_id)))
         /\ LET o == AfterAuditWrite(raised, None)
            IN  IF IsNone(o)
                THEN pc' = "gateway_analyze" /\ UNCHANGED response
                ELSE response' = o /\ pc' = "done"
    /\ UNCHANGED <<envVars, body, analysis_id, qaa, outcome, clientVars, scoreVars, gatewayVars>>

\* analyze_gateway: analyze_gateway_assessment, up to await audit_completed
GatewayAnalyze ==
    /\ pc = "gateway_analyze"
    /\ decisions' = Some(_determine_decisions(Get(gateway_input)))
    /\ outcome' = Some(HttpOk([NoContent EXCEPT !.decisions = decisions']))
    /\ pc' = "gateway_audit_completed"
    /\ UNCHANGED <<envVars, auditVars, body, analysis_id, qaa, response, clientVars, scoreVars,
                   gateway_input>>

\* analyze_gateway: await audit_completed, then return result
GatewayAuditCompleted ==
    /\ pc = "gateway_audit_completed"
    /\ \E raised \in RaiseChoices :
         /\ AuditWrite("completed", raised, audit_completed(records, Get(analysis_id)))
         /\ response' = AfterAuditWrite(raised, outcome)
    /\ pc' = "done"
    /\ UNCHANGED <<envVars, body, analysis_id, qaa, outcome, clientVars, scoreVars, gatewayVars>>

\* the models the pipeline's key is offered
PipelineLists == {<<m_gemini_25_pro, m_gemini_25_flash>>}

\* one request to /v1/analyze, in either mode, with or without a database
Init ==
    /\ MOCK_MODE \in BOOLEAN
    /\ db_enabled \in BOOLEAN
    /\ GEMINI_MODEL = s_gemini_15_pro
    /\ listed \in Opt(PipelineLists)
    /\ HandlerIdle
    /\ ClientIdle
    /\ qse = None
    /\ expl = None
    /\ extended = None
    /\ gateway_input = None
    /\ decisions = None

Next ==
    \/ Analyze
    \/ AuditCreated
    \/ SynthesizeFallback
    \/ GeminiDiscover
    \/ GeminiCall
    \/ GeminiBackoff
    \/ NarrativeReturned
    \/ NarrativeRaised
    \/ ExplainabilityRaised
    \/ Assemble
    \/ AuditCompleted
    \/ AuditFailed
    \/ GatewayAuditCreated
    \/ GatewayAnalyze
    \/ GatewayAuditCompleted

Spec == Init /\ [][Next]_vars

---------------------------------------------------------------------------
(* The analyze handler: recommendation literals, audit lifecycle, errors    *)

Ended == pc = "done"

Answer == Get(response)

\* the request took the QSE pipeline and got its analysis id
QsePipeline == ~IsNone(qse)

\* the audit record of the request, where one was created
HasRecord == ~IsNone(analysis_id) /\ Get(analysis_id) \in DOMAIN records

Record == records[Get(analysis_id)]

\* C1: the final_recommendation of every report the handler accepts, and so of
\* every successful response, is one of 'Approve', 'Approve with Conditions',
\* 'Manual Review', 'Decline', from the fallback synthesizer and from the AI
\* client alike; the AI client accepts a string only if its strip().lower()
\* is a key of the synonym table, and then the report carries that key's
\* canonical literal.
C1_FinalRecommendation ==
    LET Literals == { <<"A","p","p","r","o","v","e">>,
                      <<"A","p","p","r","o","v","e"," ","w","i","t","h"," ","C","o","n","d","i","t","i","o","n","s">>,
                      <<"M","a","n","u","a","l"," ","R","e","v","i","e","w">>,
                      <<"D","e","c","l","i","n","e">> }
    IN  /\ ~IsNone(qaa) => Get(qaa).final_recommendation \in Literals
        /\ (Ended /\ Answer.status = 200 /\ QsePipeline) =>
               /\ Answer.content.qaa_report = qaa
               /\ Get(Answer.content.qaa_report).final_recommendation \in Literals
        /\ (pc = "returned" /\ fn = "narrative") =>
               LET raw == Get(Get(resp).obj.final_recommendation)
               IN  /\ raw.t = "s"
                   /\ \E e \in mapping :
                          /\ e[1] = Lower(Strip(raw.s))
                          /\ e[2] = Get(qaa).final_recommendation

\* C1 witness: the model answered " REJECTED " and the client returned a report
\* whose final_recommendation is "Decline".
C1_Witness ==
    /\ pc = "returned"
    /\ fn = "narrative"
    /\ Get(Get(resp).obj.final_recommendation) = Str(<<" ","R","E","J","E","C","T","E","D"," ">>)
    /\ Get(qaa).final_recommendation = <<"D","e","c","l","i","n","e">>

\* C5: with auditing enabled and no audit write raising, a request that got an
\* analysis id has, when it ends, an audit record that was moved to
\* 'completed' or 'failed' exactly once.
C5_AuditLifecycle ==
    (Ended /\ db_enabled /\ audit_raised = {} /\ ~IsNone(analysis_id)) =>
        /\ HasRecord
        /\ Record.status \in {"completed", "failed"}
        /\ Record.writes = 1

\* the response the request earns by its body, the mode and what the AI
\* client came back with; the audit store has no part in it
EarnedResponse ==
    LET b == Get(body)
        invalid == HttpError(422, <<"v","a","l","i","d","a","t","i","o","n"," ","e","r","r","o","r">>)
        unhandled == HttpError(500, <<"I","n","t","e","r","n","a","l"," ","S","e","r","v","e","r"," ","E","r","r","o","r">>)
        report == HttpOk([qaa_report |-> qaa, explainability |-> expl, extended |-> extended,
                          decisions |-> None])
    IN  IF is_gateway_format(b)
        THEN IF GatewayValid(b)
             THEN HttpOk([qaa_report |-> None, explainability |-> None, extended |-> None,
                          decisions |-> Some(_determine_decisions(AsGateway(b)))])
             ELSE invalid
        ELSE IF ~QSEValid(b) THEN invalid
        ELSE IF MOCK_MODE
        THEN IF IsNone(qaa) THEN HttpError(500, <<"I","n","t","e","r","n","a","l"," ","s","e","r","v","e","r"," ","e","r","r","o","r">>)
             ELSE IF AssembleRaises(AsQSE(b)) THEN unhandled
             ELSE report
        ELSE IF IsNone(qaa) \/ IsNone(expl)
        THEN HttpError(503, IF IsNone(last_err) THEN e_gemini_call_failed ELSE Get(last_err))
        ELSE IF AssembleRaises(AsQSE(b)) THEN unhandled
        ELSE report

\* C6: an audit write that raises (create, complete or fail) never changes the
\* outcome: the status and body of the response are those the request earns
\* without regard to the audit store, in the QSE and the gateway pipeline.
C6_AuditFailureHarmless ==
    Ended => Answer = EarnedResponse

\* C6 witness: audit_created and audit_completed both raised and the request
\* was answered 200.
C6_Witness ==
    /\ Ended
    /\ audit_raised = {"created", "completed"}
    /\ Answer.status = 200

\* the narrative client raised: the QSE pipeline ended in AI mode with no report
NarrativeFailed == Ended /\ QsePipeline /\ ~MOCK_MODE /\ IsNone(qaa)

\* C7: when the AI narrative client fails, the request ends with HTTP 503
\* whose detail is the message of the client's last error; the audit record,
\* where there is one and the write did not raise, was set 'failed' (once, with
\* that message) by the time the response is out, and it is never 'completed'.
C7_NarrativeFailure ==
    NarrativeFailed =>
        /\ Answer.status = 503
        /\ Answer.detail = Get(last_err)
        /\ Answer.content = NoContent
        /\ HasRecord => Record.status # "completed"
        /\ (HasRecord /\ "failed" \notin audit_raised) =>
               /\ Record.status = "failed"
               /\ Record.writes = 1
               /\ Record.error_text = last_err

\* C7 witness: three attempts, two backoff sleeps, 503, and the record is 'failed'.
C7_Witness ==
    /\ NarrativeFailed
    /\ sleeps = <<2, 4>>
    /\ Answer.status = 503
    /\ HasRecord
    /\ Record.status = "failed"

\* the body failed the validation of the format it was routed to
InputInvalid ==
    IF is_gateway_format(Get(body)) THEN ~GatewayValid(Get(body)) ELSE ~QSEValid(Get(body))

\* C8: a request whose body fails input validation ends with HTTP 422 and,
\* with auditing enabled, has an audit record of status 'failed'.
C8_ValidationAudited ==
    (Ended /\ InputInvalid) =>
        /\ Answer.status = 422
        /\ db_enabled => \E id \in DOMAIN records : records[id].status = "failed"

\* the explainability client raised: the narrative is there, the explainability is not
ExplainabilityFailed == Ended /\ QsePipeline /\ ~MOCK_MODE /\ ~IsNone(qaa) /\ IsNone(expl)

---------------------------------------------------------------------------
(* The AI client's retry loop *)

\* the name find_first_available is to pick, stated by what makes it the pick:
\* no token before its token matches any available name, and no name before
\* it matches its token
IsPick(n, tokens, available) ==
    \E i \in DOMAIN tokens, j \in DOMAIN available :
        /\ available[j] = n
        /\ Contains(tokens[i], n)
        /\ \A k \in 1..(i - 1), l \in DOMAIN available : ~Contains(tokens[k], available[l])
        /\ \A l \in 1..(j - 1) : ~Contains(tokens[i], available[l])

\* candidates is: the configured model if available, then the pro pick, then
\* the flash pick, each once
CandidatesInOrder ==
    LET available == Get(listed)
        configured == IF SubSeq(GEMINI_MODEL, 1, 7) = s_models THEN GEMINI_MODEL
                      ELSE s_models \o GEMINI_MODEL
        n == Len(candidates)
    IN  /\ \A i, j \in 1..n : i # j => candidates[i] # candidates[j]
        /\ \A i \in 1..n :
               \/ i = 1 /\ candidates[i] = configured /\ InSeq(configured, available)
               \/ IsPick(candidates[i], pro_tokens, available)
               \/ IsPick(candidates[i], flash_tokens, available)
        /\ InSeq(configured, available) => (n >= 1 /\ candidates[1] = configured)
        /\ \A m \in {available[l] : l \in DOMAIN available} :
               /\ IsPick(m, pro_tokens, available) => InSeq(m, candidates)
               /\ IsPick(m, flash_tokens, available) => InSeq(m, candidates)
        /\ \A i, j \in 1..n :
               (/\ IsPick(candidates[i], pro_tokens, available)
                /\ ~IsPick(candidates[j], pro_tokens, available)
                /\ candidates[j] # configured) => i < j

RetryBounds ==
    /\ attempt <= 3
    /\ calls <= 3 * Len(candidates)
    /\ model_idx <= Len(candidates)
    /\ Len(sleeps) <= 2
    /\ \A i \in DOMAIN sleeps : sleeps[i] \in {2, 4}
    /\ (pc \in {"generate", "sleep", "returned"} /\ ~IsNone(listed)) => CandidatesInOrder

RetryStep ==
    LET called == calls' = calls + 1
        failed == called /\ pc' # "returned"
        skipped == failed /\ IsNotFoundMessage(Get(last_err'))
    IN  /\ called => sleeps' = sleeps
        /\ skipped =>
               /\ pc' # "sleep"
               /\ model_idx < Len(candidates) =>
                      (attempt' = attempt /\ model_idx' = model_idx + 1 /\ pc' = "generate")
               /\ (model_idx = Len(candidates) /\ attempt < 3) =>
                      (attempt' = attempt + 1 /\ model_idx' = 1 /\ pc' = "generate")
               /\ (model_idx = Len(candidates) /\ attempt = 3) => pc' = "raised"
        /\ (failed /\ ~skipped) =>
               /\ attempt' = attempt /\ model_idx' = model_idx
               /\ pc' = IF attempt < 3 THEN "sleep" ELSE "raised"
        /\ pc = "sleep" =>
               /\ sleeps' = Append(sleeps, 2 ^ attempt)
               /\ attempt' = attempt + 1 /\ model_idx' = 1 /\ pc' = "generate"
               /\ calls' = calls

---------------------------------------------------------------------------
(* The AI narrative client's result (checked under SpecClient)              *)

\* the narrative client is the function running
NarrativeClient == fn = "narrative"

\* the response the client last received is JSON text of an object that has
\* every required field and, after normalization, a canonical recommendation
ValidResponse ==
    /\ ~IsNone(resp)
    /\ Get(resp).parses
    /\ Get(resp).obj.complete
    /\ ~IsNone(Get(resp).obj.final_recommendation)
    /\ Get(_normalize_enums(Get(resp).obj.final_recommendation)).t = "s"
    /\ Get(_normalize_enums(Get(resp).obj.final_recommendation)).s \in FinalRecommendations

\* C11: the AI narrative client never returns a partial result: when it
\* returns, the report comes from a response that parsed and passed the full
\* schema (every required field, a canonical final_recommendation); when it
\* does not return it raises DownstreamError with a message and leaves no
\* report; malformed JSON or a schema violation never yields a report.
C11_NoPartialResult ==
    NarrativeClient =>
        /\ pc \in {"run_gemini", "generate", "sleep", "returned", "raised"}
        /\ pc = "returned" =>
               /\ ~IsNone(qaa)
               /\ ValidResponse
               /\ Get(qaa).final_recommendation \in FinalRecommendations
        /\ pc # "returned" => IsNone(qaa)
        /\ pc = "raised" => ~IsNone(last_err)
        /\ (pc # "returned" /\ ~IsNone(resp)) =>
               (~ValidResponse /\ ~IsNone(last_err))

\* C11 witness: the client raised after its last call came back with an
\* object that has a canonical recommendation and no other required field.
C11_Witness ==
    /\ NarrativeClient
    /\ pc = "raised"
    /\ ~IsNone(resp)
    /\ Get(resp).text = t_partial
    /\ IsNone(qaa)

---------------------------------------------------------------------------
(* _normalize_enums and the schema validation after it, applied to bounded  *)
(* payloads (SpecNormalize).  resp holds the model's response: its text is  *)
(* the final_recommendation as the model wrote it, its obj the payload that *)
(* _normalize_enums rewrites in place.  pc is "json_loads" after            *)
(* json.loads, "normalized" after _normalize_enums, "renormalized" after a  *)
(* second application, "validated" after model_validate.                    *)

\* " " + s + " "
Padded(s) == <<" ">> \o s \o <<" ">>

\* "\t" + s.upper() + "\n"
PaddedUpper(s) == <<"\t">> \o Upper(s) \o <<"\n">>

\* "approve!"
a_approve_bang == <<"a","p","p","r","o","v","e","!">>

\* "ap prove"
a_ap_prove == <<"a","p"," ","p","r","o","v","e">>

\* "Approved."
a_Approved_dot == <<"A","p","p","r","o","v","e","d",".">>

\* strings the model may write under final_recommendation: the table's keys
\* in several cases and paddings, the canonical literals, strings outside
\* the table
RecommendationStrings ==
    UNION { {e[1], Upper(e[1]), Capitalized(e[1]), Padded(e[1]), PaddedUpper(e[1])} : e \in mapping }
    \cup FinalRecommendations
    \cup {Padded(r) : r \in FinalRecommendations}
    \cup {a_Maybe, a_approve_bang, a_ap_prove, a_Approved_dot, a_Conditional_Approve, <<>>, <<" ">>}

\* the payloads: a str, a value of another type, or no final_recommendation
NormalizeInputs ==
    {TextOutcome(s, TRUE, [complete |-> TRUE, final_recommendation |-> Some(Str(s)),
                           explainability |-> None]) : s \in RecommendationStrings}
    \cup {TextOutcome(<<>>, TRUE, [complete |-> TRUE, final_recommendation |-> v,
                                  explainability |-> None]) : v \in {Some(NotStr), None}}

NormalizeInit ==
    /\ resp \in {Some(o) : o \in NormalizeInputs}
    /\ pc = "json_loads"
    /\ fn = "narrative"
    /\ candidates = <<>>
    /\ attempt = 0
    /\ model_idx = 0
    /\ last_err = None
    /\ calls = 0
    /\ sleeps = <<>>
    /\ records = <<>>
    /\ audit_raised = {}
    /\ body = None
    /\ analysis_id = Some(1)
    /\ qaa = None
    /\ outcome = None
    /\ response = None
    /\ qse = None
    /\ expl = None
    /\ extended = None
    /\ gateway_input = None
    /\ decisions = None
    /\ DefaultEnvironment

\* obj = _normalize_enums(obj), a first and a second time
NormalizeEnums ==
    /\ pc \in {"json_loads", "normalized"}
    /\ pc' = IF pc = "json_loads" THEN "normalized" ELSE "renormalized"
    /\ resp' = Some([Get(resp) EXCEPT !.obj = Normalized(@)])
    /\ UNCHANGED <<fn, candidates, attempt, model_idx, last_err, calls, sleeps>>
    /\ UNCHANGED <<envVars, auditVars, body, analysis_id, qaa, outcome, response, scoreVars, gatewayVars>>

\* QAAQualitativeReport.model_validate(obj) on the normalized payload
ModelValidate ==
    /\ pc \in {"normalized", "renormalized"}
    /\ pc' = "validated"
    /\ IF model_validate(Get(resp).obj)
       THEN /\ qaa' = Some([ final_recommendation   |-> Get(Get(resp).obj.final_recommendation).s,
                             nbe_compliance_summary |-> s_model_text ])
            /\ UNCHANGED last_err
       ELSE /\ last_err' = Some(InvalidJsonMessage(e_validation_error, Get(resp).text))
            /\ UNCHANGED qaa
    /\ UNCHANGED <<fn, candidates, attempt, model_idx, calls, sleeps, resp>>
    /\ UNCHANGED <<envVars, auditVars, body, analysis_id, outcome, response, scoreVars, gatewayVars>>

NormalizeNext == NormalizeEnums \/ ModelValidate

SpecNormalize == NormalizeInit /\ [][NormalizeNext]_vars

\* the model wrote a str under final_recommendation
WroteStr ==
    /\ ~IsNone(Get(resp).obj.final_recommendation)
    /\ Get(Get(resp).obj.final_recommendation).t = "s"

\* the final_recommendation of the payload as it stands
Recommendation == Get(Get(resp).obj.final_recommendation).s

\* the string is, up to case and surrounding whitespace, a key of the table
InTable(s) == \E e \in mapping : e[1] = Lower(Strip(s))

\* the canonical literal the table gives it
Canonical(s) == (CHOOSE e \in mapping : e[1] = Lower(Strip(s)))[2]

NormalizedAsClaimed ==
    (pc \in {"normalized", "renormalized", "validated"} /\ WroteStr) =>
        LET raw == Get(resp).text
        IN  /\ Lower(Strip(raw)) = <<"r","e","j","e","c","t","e","d">> => Recommendation = r_Decline
            /\ Lower(Strip(raw)) = <<"a","p","p","r","o","v","e","d">> => Recommendation = r_Approve
            /\ InTable(raw) => (Recommendation = Canonical(raw) /\ Recommendation \in FinalRecommendations)
            /\ raw \in FinalRecommendations => Recommendation = raw
            /\ ~InTable(raw) => Recommendation = raw
            /\ pc = "validated" => (IsNone(qaa) <=> ~InTable(raw))
            /\ (pc = "validated" /\ ~IsNone(qaa)) => Get(qaa).final_recommendation = Canonical(raw)

\* C12: _normalize_enums maps final_recommendation through the synonym table
\* on its trimmed, lower-cased value before schema validation ('Rejected'
\* becomes 'Decline', 'approved' becomes 'Approve'); a canonical literal is
\* left as it is and a second application changes nothing; a string outside
\* the table is left as it is, and schema validation rejects it.
C12_Normalization ==
    /\ []NormalizedAsClaimed
    /\ [][pc = "normalized" /\ pc' = "renormalized" => resp' = resp]_vars

\* C12 witness: the model wrote "Rejected", the payload was normalized and
\* validated, and the report says "Decline".
C12_Witness ==
    /\ pc = "validated"
    /\ Get(resp).text = Capitalized(<<"r","e","j","e","c","t","e","d">>)
    /\ ~IsNone(qaa)
    /\ Get(qaa).final_recommendation = r_Decline

---------------------------------------------------------------------------
(* synthesize_fallback applied to bounded reports, in any environment, and  *)
(* applied again to the same arguments after the environment has changed    *)
(* (SpecFallback).  qaa holds what the first call returned, response what   *)
(* the second call came to.                                                 *)

\* debt_to_income_ratio: absent, null, 0.2, 0.34, 0.35, 0.5, NaN, False, "0.2"
DtiValues ==
    {None, Some(Null), Some(NaN), Some(Bool(FALSE)), Some(NumStr(Scale \div 5))}
    \cup {Some(Pct(n)) : n \in {20, 34, 35, 50}}

\* residual_income_etb: absent, null, 0, 5000, 5001, 8000, NaN, "high"
ResidualValues ==
    {None, Some(Null), Some(NaN), Some(BadStr)}
    \cup {Some(Num(n * Scale)) : n \in {0, 5000, 5001, 8000}}

\* debt_service_to_income_ratio_dsti: absent, null, 0.3, 0.35, 0.36, NaN, "0.3"
DstiValues ==
    {None, Some(Null), Some(NaN), Some(NumStr((3 * Scale) \div 10))}
    \cup {Some(Pct(n)) : n \in {30, 35, 36}}

FaydaValues == {None, Some("Verified"), Some("Unverified")}

KycValues == {None, Some("Enhanced"), Some("Standard"), Some("Basic")}

\* pep_or_sanctions_hit_flag: absent, false, true, 0
PepValues == {None, Some(Bool(FALSE)), Some(Bool(TRUE)), Some(Zero)}

FallbackReports ==
    { [ EmptyReport EXCEPT !.debt_to_income_ratio = dti,
                           !.residual_income_etb = res,
                           !.debt_service_to_income_ratio_dsti = dsti,
                           !.fayda_verification_status = fayda,
                           !.kyc_level = kyc,
                           !.pep_or_sanctions_hit_flag = pep ] :
        dti \in DtiValues, res \in ResidualValues, dsti \in DstiValues,
        fayda \in FaydaValues, kyc \in KycValues, pep \in PepValues }

FallbackInit ==
    /\ qse \in {Some(q) : q \in FallbackReports}
    /\ pc = "synthesize_fallback"
    /\ MOCK_MODE \in BOOLEAN
    /\ db_enabled = FALSE
    /\ GEMINI_MODEL = s_gemini_15_pro
    /\ listed = None
    /\ records = <<>>
    /\ audit_raised = {}
    /\ body = None
    /\ analysis_id = Some(1)
    /\ qaa = None
    /\ outcome = None
    /\ response = None
    /\ expl = None
    /\ extended = None
    /\ gateway_input = None
    /\ decisions = None
    /\ ClientIdle

\* between two calls the configuration and the audit store change
EnvironmentChanges ==
    /\ pc \in {"assemble", "audit_failed"}
    /\ db_enabled = FALSE
    /\ db_enabled' = TRUE
    /\ GEMINI_MODEL' = m_gemini_25_pro
    /\ listed' = Some(<<m_gemini_25_pro>>)
    /\ records' = audit_created(records, Get(analysis_id))
    /\ UNCHANGED <<MOCK_MODE, audit_raised, requestVars, clientVars, scoreVars, gatewayVars>>

\* synthesize_fallback(qse, analysis_id) called again with the same arguments
SynthesizeFallbackAgain ==
    /\ pc \in {"assemble", "audit_failed"}
    /\ LET r == synthesize_fallback(Get(qse))
       IN  response' = Some(IF IsNone(r) THEN HttpError(500, d_internal_server_error)
                            ELSE HttpOk([NoContent EXCEPT !.qaa_report = r]))
    /\ pc' = "done"
    /\ UNCHANGED <<envVars, auditVars, body, analysis_id, qaa, outcome, clientVars, scoreVars, gatewayVars>>

FallbackNext == SynthesizeFallback \/ EnvironmentChanges \/ SynthesizeFallbackAgain

SpecFallback == FallbackInit /\ [][FallbackNext]_vars

\* synthesize_fallback has returned a report
FallbackReturned == pc \in {"assemble", "done"} /\ ~IsNone(qaa)

\* the value of a field as a number, where it is one (True is 1, False is 0)
IsNumeric(o) == ~IsNone(o) /\ Get(o).k \in {"num", "bool"}

\* debt_to_income_ratio is present and < 0.35, residual_income_etb > 5000 and
\* fayda_verification_status is 'Verified'
Approvable(q) ==
    /\ IsNumeric(q.debt_to_income_ratio)
    /\ Float(Get(q.debt_to_income_ratio)).v * 100 < 35 * Scale
    /\ IsNumeric(q.residual_income_etb)
    /\ Float(Get(q.residual_income_etb)).v > 5000 * Scale
    /\ q.fayda_verification_status = Some("Verified")

\* the call of synthesize_fallback has ended, with a report or an exception
FallbackEnded == pc \in {"assemble", "audit_failed", "done"}

\* C13: the fallback synthesizer returns 'Approve with Conditions' if and
\* only if debt_to_income_ratio is present and < 0.35, residual_income_etb is
\* > 5000 and fayda_verification_status is 'Verified'; in every other case,
\* absent fields included, it returns 'Manual Review' (dti 0.2, residual
\* 8000, Verified: 'Approve with Conditions'; the same Unverified: 'Manual
\* Review').
C13_FallbackRecommendation ==
    FallbackEnded =>
        /\ FallbackReturned
        /\ LET q == Get(qse)
               final == Get(qaa).final_recommendation
           IN  /\ final \in {r_Approve_with_Conditions, r_Manual_Review}
               /\ final = r_Approve_with_Conditions <=> Approvable(q)
               /\ (/\ q.debt_to_income_ratio = Some(Pct(20))
                   /\ q.residual_income_etb = Some(Num(8000 * Scale))) =>
                      /\ q.fayda_verification_status = Some("Verified") =>
                             final = r_Approve_with_Conditions
                      /\ q.fayda_verification_status = Some("Unverified") =>
                             final = r_Manual_Review

\* pep_or_sanctions_hit_flag is false, kyc_level is 'Enhanced' or 'Standard',
\* fayda_verification_status is 'Verified' and the debt-service-to-income
\* ratio, 1 when absent, is <= 0.35
Compliant(q) ==
    /\ q.pep_or_sanctions_hit_flag = Some(Bool(FALSE))
    /\ q.kyc_level \in {Some("Enhanced"), Some("Standard")}
    /\ q.fayda_verification_status = Some("Verified")
    /\ IsNumeric(q.debt_service_to_income_ratio_dsti)
    /\ Get(q.debt_service_to_income_ratio_dsti).v * 100 <= 35 * Scale

\* C14: the fallback synthesizer's nbe_compliance_summary is 'COMPLIANT' if
\* and only if pep_or_sanctions_hit_flag is false, kyc_level is 'Enhanced' or
\* 'Standard', fayda_verification_status is 'Verified' and the
\* debt-service-to-income ratio is <= 0.35, an absent ratio counting as 1 and
\* an absent PEP flag as non-compliant; otherwise it starts with
\* 'NON-COMPLIANT'.
C14_FallbackCompliance ==
    FallbackEnded =>
        /\ FallbackReturned
        /\ LET q == Get(qse)
               summary == Get(qaa).nbe_compliance_summary
           IN  /\ summary = s_COMPLIANT <=> Compliant(q)
               /\ summary # s_COMPLIANT => StartsWith(summary, s_NON_COMPLIANT)
               /\ IsNone(q.debt_service_to_income_ratio_dsti) => summary # s_COMPLIANT
               /\ IsNone(q.pep_or_sanctions_hit_flag) => summary # s_COMPLIANT

\* C15: the fallback synthesizer always succeeds: for every schema-valid
\* report, with any subset of sections absent or partially populated and any
\* value type under a section field, it returns a report and never raises.
C15_FallbackAlwaysSucceeds ==
    FallbackEnded => ~IsNone(qaa)

\* the second call came to what the first call came to
SameResult ==
    IF IsNone(qaa) THEN Get(response) = HttpError(500, d_internal_server_error)
    ELSE Get(response) = HttpOk([NoContent EXCEPT !.qaa_report = qaa])

\* a call of the synthesizer leaves the configuration and the audit store as
\* they were, makes no model call and no sleep, and keeps its arguments
FallbackCallStep ==
    (pc = "synthesize_fallback" \/ pc' = "done") =>
        UNCHANGED <<envVars, auditVars, calls, sleeps, resp, candidates, qse, analysis_id, body>>

---------------------------------------------------------------------------
(* Gateway analyzer: _generate_recommendations applied to bounded gateway   *)
(* inputs (SpecRecommendations).  A recommendation is a str that is only    *)
(* compared, a TLA+ string here.  decisions holds the list as generated     *)
(* and the list as returned.                                                *)

r_manual_review_fraud == "Manual review required due to fraud risk indicators"

r_high_default == "High default probability - consider risk mitigation measures"

r_moderate_default == "Moderate default probability - enhanced monitoring recommended"

r_one_third == "One-third rule compliance issue - adjust loan amount or terms"

r_collect_payslips == "Collect three recent payslips"

\* f"Monitor {fraud_signals_count} fraud signal(s)"
MonitorText(n) == IF n = 1 THEN "Monitor 1 fraud signal(s)" ELSE "Monitor 2 fraud signal(s)"

\* f"Recommended product: {product_type} (Amount: ..., Suitability: ...%)"
ProductText(p) ==
    IF p.product_type = "salary_advance"
    THEN "Recommended product: salary_advance (Amount: 5,000 ETB, Suitability: 80.0%)"
    ELSE "Recommended product: micro_loan (Amount: 20,000 ETB, Suitability: 90.0%)"

\* f"Ability to pay score is low ({score}) - ..."
AbilityText(score) == "Ability to pay score is low (40.0) - consider lower loan amount or longer term"

\* f"Willingness to pay score is low ({score}) - ..."
WillingnessText(score) == "Willingness to pay score is low (40.0) - additional verification recommended"

\* max(eligible_products, key=suitability_score): the first of the best
BestProduct(eligible) ==
    eligible[CHOOSE i \in DOMAIN eligible :
                 /\ \A j \in DOMAIN eligible : eligible[j].suitability_score <= eligible[i].suitability_score
                 /\ \A j \in 1..(i - 1) : eligible[j].suitability_score < eligible[i].suitability_score]

\* [p for p in product_recommendations if p.eligible]
RECURSIVE EligibleProducts(_)
EligibleProducts(ps) ==
    IF ps = <<>> THEN <<>>
    ELSE (IF Head(ps).eligible THEN <<Head(ps)>> ELSE <<>>) \o EligibleProducts(Tail(ps))

\* the list with a string dropped only where it repeats the one before it: a
\* plausible slip
RECURSIVE FromKeysAdjacent(_, _)
FromKeysAdjacent(s, acc) ==
    IF s = <<>> THEN acc
    ELSE FromKeysAdjacent(Tail(s), IF acc # <<>> /\ acc[Len(acc)] = Head(s) THEN acc
                                   ELSE Append(acc, Head(s)))

\* list(dict.fromkeys(s)): a key is inserted where it is first seen; acc is
\* the keys so far
RECURSIVE FromKeys(_, _)
FromKeys(s, acc) ==
    IF s = <<>> THEN acc
    ELSE FromKeys(Tail(s), IF InSeq(Head(s), acc) THEN acc ELSE Append(acc, Head(s)))

\* the recommendations list before the duplicates are removed
GeneratedRecommendations(gi) ==
    LET fraud == gi.fraud_detection_result
        dp == gi.default_probability
        eligible == EligibleProducts(gi.product_recommendations)
    IN  gi.risk_recommendations
        \o (IF IsNone(gi.risk_analysis) THEN <<>> ELSE Get(gi.risk_analysis).recommendations)
        \o (IF IsNone(fraud) THEN <<>>
            ELSE IF Get(fraud).require_manual_review THEN <<r_manual_review_fraud>>
            ELSE IF Get(fraud).fraud_signals_count > 0
            THEN <<MonitorText(Get(fraud).fraud_signals_count)>>
            ELSE <<>>)
        \o (IF IsNone(gi.feature_completeness) THEN <<>>
            ELSE Get(gi.feature_completeness).recommendations)
        \o gi.tier_improvement_recommendations
        \o (IF eligible = <<>> THEN <<>> ELSE <<ProductText(BestProduct(eligible))>>)
        \o (IF ~IsNone(gi.ability_to_pay_score) /\ Get(gi.ability_to_pay_score) < 50
            THEN <<AbilityText(Get(gi.ability_to_pay_score))>> ELSE <<>>)
        \o (IF ~IsNone(gi.willingness_to_pay_score) /\ Get(gi.willingness_to_pay_score) < 50
            THEN <<WillingnessText(Get(gi.willingness_to_pay_score))>> ELSE <<>>)
        \o (IF ~IsNone(dp) /\ Get(dp).v # 0 /\ Get(dp).v * 100 > 25 * Scale THEN <<r_high_default>>
            ELSE IF ~IsNone(dp) /\ Get(dp).v # 0 /\ Get(dp).v * 100 > 15 * Scale
            THEN <<r_moderate_default>>
            ELSE <<>>)
        \o (IF ~IsNone(gi.nbe_compliance_status)
               /\ Lower(Get(gi.nbe_compliance_status).one_third_rule) # s_pass
            THEN <<r_one_third>> ELSE <<>>)

\* _generate_recommendations
_generate_recommendations(gi) == FromKeys(GeneratedRecommendations(gi), <<>>)

p_salary_advance == [product_type |-> "salary_advance", eligible |-> TRUE, suitability_score |-> 80]

p_micro_loan == [product_type |-> "micro_loan", eligible |-> TRUE, suitability_score |-> 90]

p_ineligible == [product_type |-> "mortgage", eligible |-> FALSE, suitability_score |-> 95]

\* pass-through lists: free text, and the texts the rules produce
PassThroughLists ==
    { <<>>, <<r_collect_payslips>>, <<r_manual_review_fraud>>,
      <<r_one_third, r_collect_payslips>>,
      <<r_collect_payslips, r_high_default, r_collect_payslips>>,
      <<r_high_default, r_manual_review_fraud>> }

RecommendationInputs ==
    [ risk_recommendations             : PassThroughLists,
      risk_analysis                    : Opt([recommendations : {<<>>, <<r_collect_payslips, r_one_third>>}]),
      fraud_detection_result           : Opt({[require_manual_review |-> TRUE, fraud_signals_count |-> 2],
                                              [require_manual_review |-> FALSE, fraud_signals_count |-> 0],
                                              [require_manual_review |-> FALSE, fraud_signals_count |-> 1]}),
      feature_completeness             : Opt([recommendations : {<<"Monitor 1 fraud signal(s)">>}]),
      tier_improvement_recommendations : {<<>>, <<r_manual_review_fraud, r_collect_payslips>>},
      product_recommendations          : {<<>>, <<p_ineligible>>, <<p_salary_advance, p_ineligible, p_micro_loan>>},
      ability_to_pay_score             : Opt({40, 50}),
      willingness_to_pay_score         : Opt({40}),
      default_probability              : Opt({Zero, Pct(15), Pct(20), Pct(30)}),
      nbe_compliance_status            : Opt([one_third_rule : {s_pass, <<"F","A","I","L">>}]) ]

RecommendationsInit ==
    /\ gateway_input \in {Some(gi) : gi \in RecommendationInputs}
    /\ decisions = None
    /\ qse = None
    /\ expl = None
    /\ extended = None
    /\ DefaultEnvironment
    /\ HandlerIdle
    /\ ClientIdle

\* recommendations = _generate_recommendations(gateway_input)
GenerateRecommendations ==
    /\ IsNone(decisions)
    /\ pc = "idle"
    /\ decisions' = Some([ generated       |-> GeneratedRecommendations(Get(gateway_input)),
                           recommendations |-> _generate_recommendations(Get(gateway_input)) ])
    /\ UNCHANGED <<gateway_input, scoreVars, envVars, auditVars, requestVars, clientVars>>

RecommendationsNext == GenerateRecommendations

SpecRecommendations == RecommendationsInit /\ [][RecommendationsNext]_vars

\* the position at which x first occurs in s
FirstIndex(x, s) == CHOOSE i \in DOMAIN s : s[i] = x /\ \A j \in 1..(i - 1) : s[j] # x

\* C17: the gateway recommendations list contains no duplicate strings: a
\* string produced by two rules or pass-through lists appears exactly once,
\* every generated string appears, and the strings stand in the order in
\* which they were first generated.
C17_RecommendationsDeduplicated ==
    ~IsNone(decisions) =>
        LET raw == Get(decisions).generated
            out == Get(decisions).recommendations
        IN  /\ \A i, j \in DOMAIN out : i # j => out[i] # out[j]
            /\ {out[i] : i \in DOMAIN out} = {raw[i] : i \in DOMAIN raw}
            /\ \A i, j \in DOMAIN out : i < j => FirstIndex(out[i], raw) < FirstIndex(out[j], raw)

\* C17 witness: the manual-review text came from the risk recommendations and
\* again from the fraud rule, with other texts in between, and stands once
\* in the returned list.
C17_Witness ==
    /\ ~IsNone(decisions)
    /\ Get(gateway_input).risk_recommendations = <<r_high_default, r_manual_review_fraud>>
    /\ ~IsNone(Get(gateway_input).risk_analysis)
    /\ Get(Get(gateway_input).risk_analysis).recommendations # <<>>
    /\ ~IsNone(Get(gateway_input).fraud_detection_result)
    /\ Get(Get(gateway_input).fraud_detection_result).require_manual_review
    /\ Len(Get(decisions).recommendations) < Len(Get(decisions).generated)
    /\ Cardinality({i \in DOMAIN Get(decisions).recommendations :
                        Get(decisions).recommendations[i] = r_manual_review_fraud}) = 1

---------------------------------------------------------------------------
(* The risk category of the response (checked under SpecScores)             *)

\* the text of a risk level that is a str, trimmed and lower-cased
LevelKey(o) == Lower(Strip(Get(o).s))

\* the effective risk level names low, medium or high
LevelRecognized(q) ==
    LET level == IF LevelTruthy(q.risk_level) THEN q.risk_level ELSE q.final_risk_level
    IN  ~IsNone(level) /\ Get(level).t = "s" /\ LevelKey(level) \in {s_low, s_medium, s_high}

\* the capitalized effective risk level
LevelCapitalized(q) ==
    LET level == IF LevelTruthy(q.risk_level) THEN q.risk_level ELSE q.final_risk_level
    IN  IF LevelKey(level) = s_low THEN <<"L","o","w">>
        ELSE IF LevelKey(level) = s_medium THEN <<"M","e","d","i","u","m">>
        ELSE <<"H","i","g","h">>

\* C18: risk_category is the capitalized effective risk level when that level
\* is low, medium or high (case-insensitive, trimmed), whatever the default
\* probability; otherwise it is thresholded from the default probability
\* (< 0.10 'Low', < 0.25 'Medium', otherwise 'High': 0.05, 0.20, 0.40 give
\* Low, Medium, High); it is null only when neither exists.
C18_RiskCategory ==
    ~IsNone(extended) =>
        LET category == Get(extended).risk_category
            p == Get(extended).default_probability
        IN  /\ LevelRecognized(qse) => category = Some(LevelCapitalized(qse))
            /\ (~LevelRecognized(qse) /\ ~IsNone(p)) =>
                   /\ ~IsNone(category)
                   /\ (~IsNaN(Get(p)) /\ Get(p).v * 100 < 10 * Scale) => Get(category) = <<"L","o","w">>
                   /\ (~IsNaN(Get(p)) /\ Get(p).v * 100 >= 10 * Scale /\ Get(p).v * 100 < 25 * Scale) =>
                          Get(category) = <<"M","e","d","i","u","m">>
                   /\ (IsNaN(Get(p)) \/ Get(p).v * 100 >= 25 * Scale) => Get(category) = <<"H","i","g","h">>
                   /\ p = Some(Pct(5)) => Get(category) = <<"L","o","w">>
                   /\ p = Some(Pct(20)) => Get(category) = <<"M","e","d","i","u","m">>
                   /\ p = Some(Pct(40)) => Get(category) = <<"H","i","g","h">>
            /\ IsNone(category) <=> (~LevelRecognized(qse) /\ IsNone(p))

\* C18 witness: the level ' Low ' won over a default probability of 0.40.
C18_Witness ==
    /\ ~IsNone(extended)
    /\ qse.risk_level = Some(Str(<<" ","L","o","w"," ">>))
    /\ qse.default_probability = Some(Pct(40))
    /\ Get(extended).risk_category = Some(<<"L","o","w">>)

---------------------------------------------------------------------------
(* The ensemble block of the response (checked under SpecScores).  The code *)
(* reads no ensemble setting, so the configuration is no part of the state: *)
(* the claim is stated for the configuration of its scenario.               *)

\* the scenario's configuration: 'multi' mode with one extra model name
EnsembleMode == "multi"
EnsembleModels == <<"modelX">>

\* the model names the ensemble block is to cover under that configuration
ConfiguredNames ==
    {"gemini"} \cup (IF EnsembleMode = "multi"
                     THEN {EnsembleModels[i] : i \in DOMAIN EnsembleModels}
                     ELSE {})

\* C19: under 'multi' ensemble mode with extra configured model names the
\* ensemble block splits the weight equally across 'gemini' and every
\* configured model, all sharing the same prediction (one extra model:
\* weights 0.5 and 0.5, equal predictions, consensus the prediction,
\* diversity 0); in every mode the consensus score is the weighted mean of
\* the predictions and the diversity index is 0 for fewer than two.
C19_Ensemble ==
    ~IsNone(extended) =>
        LET ed == Get(extended).ensemble_details
            p == ed.individual_predictions["gemini"]
        IN  /\ ed.consensus_score = Round4(ConsensusScore(ed.individual_predictions, ed.weights))
            /\ Cardinality(DOMAIN ed.individual_predictions) < 2 => ed.diversity_index = Zero
            /\ DOMAIN ed.weights = ConfiguredNames
            /\ \A n \in ConfiguredNames : ed.weights[n] = Num(Scale \div Cardinality(ConfiguredNames))
            /\ DOMAIN ed.individual_predictions = ConfiguredNames
            /\ \A n \in ConfiguredNames : ed.individual_predictions[n] = p
            /\ ed.consensus_score = Round4(p)
            /\ ed.diversity_index = Zero

----------------------------------------------------------------------------
(* The mock-mode flag of the analyze handler (checked under Spec)           *)

\* the handler is inside run_gemini or run_gemini_explainability, or has just left it
InClient == pc \in {"run_gemini", "generate", "sleep", "returned", "raised"}

\* the AI client was never entered: no function selected, no candidate list
\* built, no model call, no backoff sleep, no response received
ClientUntouched ==
    /\ ~InClient
    /\ fn = ""
    /\ candidates = <<>>
    /\ calls = 0
    /\ sleeps = <<>>
    /\ resp = None

\* where the flag lets a request go
MockModeRouting ==
    /\ MOCK_MODE => ClientUntouched
    /\ (MOCK_MODE /\ ~IsNone(qaa)) => qaa = synthesize_fallback(Get(qse))
    /\ (MOCK_MODE /\ ~IsNone(expl)) => expl = Some(MockExplainability)
    /\ ~MOCK_MODE => pc # "synthesize_fallback"
    /\ (~MOCK_MODE /\ Ended /\ QsePipeline /\ IsNone(qaa)) => Answer.status = 503

\* who writes the report: the synthesizer with the flag on, a validated model
\* response of the narrative call with the flag off
ReportWrittenBy ==
    qaa' # qaa =>
        IF MOCK_MODE
        THEN pc = "synthesize_fallback" /\ qaa' = synthesize_fallback(Get(qse))
        ELSE pc = "generate" /\ fn = "narrative" /\ qaa' = Some(ReportOf(Get(resp')))

\* C20: with the mock-mode flag on, handling an analyze request makes no call
\* to the AI client at all (neither the narrative call nor the explainability
\* call) and the qualitative report is exactly the output of the fallback
\* synthesizer; with the flag off the synthesizer is never used, even when the
\* AI client fails.
C20_MockMode == []MockModeRouting /\ [][ReportWrittenBy]_vars

\* C20 witness: a mock-mode request answered 200 with the synthesizer's report
\* and not one model call made.
C20_Witness ==
    /\ MOCK_MODE
    /\ Ended
    /\ QsePipeline
    /\ Answer.status = 200
    /\ Answer.content.qaa_report = synthesize_fallback(Get(qse))
    /\ calls = 0

----------------------------------------------------------------------------
(* Format detection of POST /v1/analyze (checked under Spec)                *)

\* the raw body has the field 'success'
HasSuccessField(b) == ~IsNone(b.success)

\* the raw body has fraud_detection_result, product_recommendations and an
\* nbe_compliance_status object containing overall_compliance
HasGatewayTrio(b) ==
    /\ ~IsNone(b.fraud_detection_result)
    /\ ~IsNone(b.product_recommendations)
    /\ ~IsNone(b.nbe_compliance_status)
    /\ ~IsNone(Get(b.nbe_compliance_status).overall_compliance)

\* the handler is in, or has results of, the QSE pipeline
QseTouched ==
    \/ ~IsNone(qse) \/ ~IsNone(qaa) \/ ~IsNone(expl) \/ ~IsNone(extended)
    \/ pc \in {"audit_created", "synthesize_fallback", "assemble", "audit_completed", "audit_failed"}
    \/ InClient

\* the handler is in, or has results of, the gateway pipeline
GatewayTouched ==
    \/ ~IsNone(gateway_input) \/ ~IsNone(decisions)
    \/ pc \in {"gateway_audit_created", "gateway_analyze", "gateway_audit_completed"}

\* C21: each POST /v1/analyze request is handled by exactly one of the two
\* pipelines: the gateway pipeline if and only if the raw body has the field
\* 'success' or the three gateway keys (with overall_compliance inside the
\* nbe_compliance_status object), otherwise the QSE pipeline; a body routed
\* to one pipeline is never parsed or processed by the other, also when its
\* validation fails.
C21_Routing ==
    ~IsNone(body) =>
        LET gateway == HasSuccessField(Get(body)) \/ HasGatewayTrio(Get(body))
        IN  /\ gateway => ~QseTouched
            /\ ~gateway => ~GatewayTouched
            /\ (Ended /\ Answer.status = 200) =>
                   IF gateway THEN ~IsNone(Answer.content.decisions)
                   ELSE ~IsNone(Answer.content.qaa_report)

----------------------------------------------------------------------------
(* The asynchronous endpoints (main.py, analyze_async and get_job_status),  *)
(* one request after another against the same audit store.  analysis_id     *)
(* holds the job id of the request at hand.                                 *)

\* str(uuid.uuid4()) of a submit: an id no record has
JobIds == {101, 102, 103}

\* the job ids a caller may poll: submitted ones and one never submitted
PollIds == JobIds \cup {104}

\* Response(json.dumps({"job_id": ..., "status": "queued", ...}), status_code=202)
JobQueued(id) == [status |-> 202, detail |-> <<>>, content |-> [job_id |-> id, status |-> "queued"]]

\* {"job_id": job_id, "status": "pending"}
JobPending(id) == [status |-> 200, detail |-> <<>>, content |-> [job_id |-> id, status |-> "pending"]]

AsyncInit ==
    /\ MOCK_MODE \in BOOLEAN
    /\ db_enabled \in BOOLEAN
    /\ GEMINI_MODEL = s_gemini_15_pro
    /\ listed \in Opt(PipelineLists)
    /\ HandlerIdle
    /\ ClientIdle
    /\ qse = None
    /\ expl = None
    /\ extended = None
    /\ gateway_input = None
    /\ decisions = None

\* analyze_async up to its await: the framework validates the body as a
\* QSEReportInput (422 before the handler runs), then the job id
AnalyzeAsync ==
    /\ pc = "idle"
    /\ \E b \in Bodies :
         /\ body' = Some(b)
         /\ IF QSEValid(b)
            THEN /\ \E id \in JobIds \ DOMAIN records : analysis_id' = Some(id)
                 /\ pc' = "job_audit_created"
                 /\ UNCHANGED response
            ELSE /\ response' = Some(HttpError(422, e_validation_error))
                 /\ pc' = "done"
                 /\ UNCHANGED analysis_id
    /\ UNCHANGED <<envVars, auditVars, qaa, outcome, clientVars, scoreVars, gatewayVars>>

\* a submit that also runs the analysis and completes its record: what the
\* endpoint would do if it scheduled the work
JobAuditCreatedAndRun ==
    /\ pc = "job_audit_created"
    /\ \E raised \in RaiseChoices :
         AuditWrite("created", raised,
                    audit_completed(audit_created(records, Get(analysis_id)), Get(analysis_id)))
    /\ response' = Some(JobQueued(Get(analysis_id)))
    /\ pc' = "done"
    /\ UNCHANGED <<envVars, body, analysis_id, qaa, outcome, clientVars, scoreVars, gatewayVars>>

\* analyze_async from its await on: audit_created under the job id, its
\* exception swallowed, then the 202
JobAuditCreated ==
    /\ pc = "job_audit_created"
    /\ \E raised \in RaiseChoices :
         AuditWrite("created", raised, audit_created(records, Get(analysis_id)))
    /\ response' = Some(JobQueued(Get(analysis_id)))
    /\ pc' = "done"
    /\ UNCHANGED <<envVars, body, analysis_id, qaa, outcome, clientVars, scoreVars, gatewayVars>>

\* get_job_status
GetJobStatus ==
    /\ pc = "idle"
    /\ \E id \in PollIds :
         /\ analysis_id' = Some(id)
         /\ response' = Some(JobPending(id))
    /\ pc' = "done"
    /\ UNCHANGED <<envVars, auditVars, body, qaa, outcome, clientVars, scoreVars, gatewayVars>>

\* the response is out; the server takes the next request
NextRequest ==
    /\ pc = "done"
    /\ pc' = "idle"
    /\ body' = None
    /\ analysis_id' = None
    /\ response' = None
    /\ audit_raised' = {}
    /\ UNCHANGED <<envVars, records, qaa, outcome, clientVars, scoreVars, gatewayVars>>

AsyncNext ==
    \/ AnalyzeAsync
    \/ JobAuditCreated
    \/ GetJobStatus
    \/ NextRequest

SpecAsync == AsyncInit /\ [][AsyncNext]_vars

\* the request at hand is a submit that was answered
Submitted == Ended /\ ~IsNone(body) /\ QSEValid(Get(body))

\* the request at hand is a poll that was answered
Polled == Ended /\ IsNone(body)

\* no analysis was started: no report, no outcome, no derived scores, and the
\* AI client untouched
NoWork ==
    /\ IsNone(qaa) /\ IsNone(outcome) /\ IsNone(qse) /\ IsNone(expl) /\ IsNone(extended)
    /\ IsNone(gateway_input) /\ IsNone(decisions)
    /\ ClientUntouched

AsyncStub ==
    /\ Submitted =>
           /\ Answer = JobQueued(Get(analysis_id))
           /\ (db_enabled /\ "created" \notin audit_raised) =>
                  /\ HasRecord
                  /\ Record = [status |-> "created", error_text |-> None, writes |-> 0]
    /\ Polled => Answer = JobPending(Get(analysis_id))
    /\ NoWork
    /\ \A id \in DOMAIN records : records[id].status = "created" /\ records[id].writes = 0

\* a step adds at most one record and changes none there is
RecordsOnlyAdded ==
    /\ \A id \in DOMAIN records : id \in DOMAIN records' /\ records'[id] = records[id]
    /\ Cardinality(DOMAIN records') <= Cardinality(DOMAIN records) + 1
    /\ DOMAIN records' # DOMAIN records => (pc = "job_audit_created" /\ DOMAIN records' \ DOMAIN records = {Get(analysis_id)})

\* C22: the async endpoint is a stub: a submit writes one audit record with
\* status 'created' under the job id (where the audit store is enabled and the
\* write commits: a disabled store makes every audit call a no-op and a
\* failed write is swallowed), returns status 'queued' with HTTP 202 and
\* starts no work; after any sequence of later operations that record is
\* never moved to 'completed' or 'failed' by it, and polling the job status
\* returns 'pending' for every job id, submitted or not, forever.
C22_AsyncStub == []AsyncStub /\ [][RecordsOnlyAdded]_vars

\* C22 witness: two jobs were submitted and recorded, and a later poll of the
\* first one is answered 'pending' while its record is still 'created'.
C22_Witness ==
    /\ Polled
    /\ analysis_id = Some(101)
    /\ {101, 102} \subseteq DOMAIN records
    /\ records[101].status = "created"
    /\ Answer.content.status = "pending"

----------------------------------------------------------------------------
(* The default probability of the response (checked under SpecScores)       *)

\* the four sources of the default probability, None where a source has none
TopLevelSource == qse.default_probability

RiskAnalysisSource ==
    IF IsNone(qse.risk_analysis) THEN None ELSE Get(qse.risk_analysis).default_probability

\* the peer default rate counts when it is a number (as Python's isinstance
\* counts: int, float or bool), taken as a float
PeerSource ==
    IF ~IsNone(qse.anonymized_peer_default_rate)
       /\ Get(qse.anonymized_peer_default_rate).k \in {"num", "nan", "bool"}
    THEN Some([k |-> IF Get(qse.anonymized_peer_default_rate).k = "nan" THEN "nan" ELSE "num",
               v |-> IF Get(qse.anonymized_peer_default_rate).k = "bool"
                     THEN Get(qse.anonymized_peer_default_rate).v * Scale
                     ELSE Get(qse.anonymized_peer_default_rate).v])
    ELSE None

\* low 0.08, medium 0.18, high 0.35, on the top-level risk_level or else the
\* governance section's final_risk_level
LevelSource ==
    LET eff == IF ~IsNone(qse.risk_level) /\ Get(qse.risk_level) # Str(<<>>)
               THEN qse.risk_level ELSE qse.final_risk_level
        key == IF IsNone(eff) \/ Get(eff).t # "s" THEN <<>> ELSE Lower(Strip(Get(eff).s))
    IN  IF key = <<"l","o","w">> THEN Some(Num(8000))
        ELSE IF key = <<"m","e","d","i","u","m">> THEN Some(Num(18000))
        ELSE IF key = <<"h","i","g","h">> THEN Some(Num(35000))
        ELSE None

FallbackOrder == <<TopLevelSource, RiskAnalysisSource, PeerSource, LevelSource>>

\* C23: the default probability of the response is chosen by a strict
\* fallback order, first non-null wins: the explicit top-level value, else the
\* risk-analysis block's value, else the numeric peer default rate, else the
\* estimate from the effective risk level (low 0.08, medium 0.18, high 0.35;
\* the top-level risk_level or else the governance final_risk_level), else
\* null; a later source never overrides an earlier one that is present.
C23_DefaultProbability ==
    ~IsNone(extended) =>
        LET dp == Get(extended).default_probability
        IN  /\ Get(extended).scores.default_probability = dp
            /\ \A i \in 1..4 :
                   (~IsNone(FallbackOrder[i]) /\ \A j \in 1..(i - 1) : IsNone(FallbackOrder[j]))
                       => dp = FallbackOrder[i]
            /\ (\A i \in 1..4 : IsNone(FallbackOrder[i])) => IsNone(dp)

\* C23 witness: no top-level value, a risk-analysis block without a value, a
\* peer default rate that is no number, an empty top-level risk_level and a
\* governance level 'medium': the response carries 0.18.
C23_Witness ==
    /\ ~IsNone(extended)
    /\ IsNone(qse.default_probability)
    /\ qse.risk_analysis = Some([default_probability |-> None])
    /\ qse.anonymized_peer_default_rate = Some(BadStr)
    /\ qse.risk_level = Some(Str(<<>>))
    /\ qse.final_risk_level = Some(Str(s_medium))
    /\ Get(extended).default_probability = Some(Num(18000))

----------------------------------------------------------------------------
(* The consolidated credit score (checked under SpecScores)                 *)

\* x rounded to the nearest integer (ties to even) and clamped to [300, 850]
RoundedAndClamped(x) ==
    LET r == RoundHalfEven(x.v, Scale)
    IN  IF r < 300 THEN 300 ELSE IF r > 850 THEN 850 ELSE r

\* 850 minus default_probability times 550
EstimateFrom(dp) == IF IsNaN(dp) THEN NaN ELSE Num(850 * Scale - dp.v * 550)

\* C24 (the statement as claimed): the consolidated credit score is the
\* explicit input credit_score rounded and clamped to [300, 850] when the
\* input has one; otherwise, when a default probability is available, it is
\* 850 minus default_probability times 550, rounded and clamped; it is null
\* only when neither is available.
C24_CreditScoreAsClaimed ==
    ~IsNone(extended) =>
        LET score == Get(extended).scores.credit_score
            dp == Get(extended).default_probability
        IN  /\ ~IsNone(qse.credit_score) =>
                   /\ ~IsNone(score)
                   /\ ~IsNaN(Get(qse.credit_score)) => score = Some(RoundedAndClamped(Get(qse.credit_score)))
            /\ (IsNone(qse.credit_score) /\ ~IsNone(dp)) =>
                   /\ ~IsNone(score)
                   /\ ~IsNaN(Get(dp)) => score = Some(RoundedAndClamped(EstimateFrom(Get(dp))))
            /\ IsNone(score) => (IsNone(qse.credit_score) /\ IsNone(dp))

\* a value that int(round(float(x))) accepts
Usable(o) == ~IsNone(o) /\ ~IsNaN(Get(o))

\* C24 (amended): the consolidated credit score is the explicit input
\* credit_score rounded and clamped to [300, 850] when the input has one that
\* is a finite number, and such a score is never replaced by the estimate;
\* otherwise (no input score, or one that is NaN), when a default probability
\* is available and finite, it is 850 minus default_probability times 550,
\* rounded and clamped; in every other case it is null.
C24_CreditScore ==
    ~IsNone(extended) =>
        LET score == Get(extended).scores.credit_score
            dp == Get(extended).default_probability
        IN  IF Usable(qse.credit_score)
            THEN score = Some(RoundedAndClamped(Get(qse.credit_score)))
            ELSE IF Usable(dp)
            THEN score = Some(RoundedAndClamped(EstimateFrom(Get(dp))))
            ELSE IsNone(score)

\* C24 witness: an input score of 849.5 with a default probability of 0.4 is
\* consolidated to 850 (the rounded input, not the estimate 630).
C24_Witness ==
    /\ ~IsNone(extended)
    /\ qse.credit_score = Some(Halves(1699))
    /\ qse.default_probability = Some(Pct(40))
    /\ Get(extended).scores.credit_score = Some(850)

----------------------------------------------------------------------------
(* liquidity_risk (checked under SpecScores)                                *)

\* the value is there and float() makes a finite number of it
Numeric(o) == ~IsNone(o) /\ Get(o).k \in {"num", "bool", "numstr"}

\* the fixed-point value of a numeric input
ValueOf(o) == IF Get(o).k = "bool" THEN Get(o).v * Scale ELSE Get(o).v

\* clamp01 on fixed-point values
Unit(v) == IF v < 0 THEN 0 ELSE IF v > Scale THEN Scale ELSE v

\* clamp01(1 - min(cash_buffer_days / 90, 1))
LiquidityBase(days) ==
    LET share == ValueOf(days) \div 90
    IN  Unit(Scale - (IF share < Scale THEN share ELSE Scale))

\* 0.5 * liquidity + 0.5 * clamp01(overdraft_days / 90)
LiquidityBlend(days, overdraft) ==
    (LiquidityBase(days) * 5) \div 10 + (Unit(ValueOf(overdraft) \div 90) * 5) \div 10

\* C25: liquidity_risk is null unless its required input cash_buffer_days is
\* present and numeric; when it is present the value starts from
\* clamp01(1 - min(cash_buffer_days/90, 1)), and only if overdraft-usage-days
\* is also present is it blended as 0.5*liquidity + 0.5*clamp01(overdraft/90);
\* in particular an input with overdraft days but no cash_buffer_days yields
\* liquidity_risk null.
C25_LiquidityRisk ==
    ~IsNone(extended) =>
        LET days == qse.cash_buffer_days
            overdraft == qse.overdraft_usage_days_90d
            liquidity == Get(extended).risk_dimensions.liquidity_risk
        IN  /\ ~Numeric(days) /\ (IsNone(days) \/ ~IsNaN(Get(days))) => IsNone(liquidity)
            /\ (Numeric(days) /\ IsNone(overdraft)) => liquidity = Some(Num(LiquidityBase(days)))
            /\ (Numeric(days) /\ Numeric(overdraft)) =>
                   liquidity = Some(Num(LiquidityBlend(days, overdraft)))

----------------------------------------------------------------------------
(* character_risk (checked under SpecScores)                                *)

\* the behavioural signals that are numbers, each clamped to [0, 100]
AvailableSignals ==
    LET f == SignalFields(qse)
        idx == {i \in DOMAIN f : ~IsNone(f[i]) /\ Get(f[i]).k \in {"num", "nan", "bool"}}
    IN  [i \in idx |-> Bound100(Float(Get(f[i])))]

\* the explainability entries named after known behavioural features
MatchingEntries ==
    LET fi == Get(expl).feature_importance
    IN  {i \in DOMAIN fi : FeatureWeight(fi[i].feature) > 0}

\* the weighted reconstruction: the mean over the matching entries of
\* clamp(50 + 50 * importance, 0, 100) * weight
Reconstruction ==
    LET fi == Get(expl).feature_importance
        acc == [i \in MatchingEntries |->
                   FTimes(Bound100(FAdd(Num(50 * Scale), FTimes(fi[i].importance, 50, 1))),
                          FeatureWeight(fi[i].feature), 10)]
    IN  FTimes(SumOver(acc, MatchingEntries), 1, Cardinality(MatchingEntries))

\* 1 - char_base / 100, within [0, 1], to four places
RiskOfBase(char_base) == Round4(Clamp01(FSub(One, FTimes(char_base, 1, 100))))

\* C26: character_risk is 1 - char_base/100 where char_base is, in order, the
\* unweighted mean of the available behavioural signals (each clamped to
\* [0, 100]) if any exist; else, if the explainability result has
\* feature-importance entries named after known behavioural features, the
\* weighted reconstruction from those entries; else the neutral baseline 55,
\* giving 0.45.  With no signals and a non-empty matching explainability
\* list the result is the reconstruction and not the baseline.
C26_CharacterRisk ==
    ~IsNone(extended) =>
        LET character_risk == Get(extended).risk_dimensions.character_risk
            signals == AvailableSignals
        IN  character_risk =
                Some(RiskOfBase(
                    IF DOMAIN signals # {}
                    THEN FTimes(SumOver(signals, DOMAIN signals), 1, Cardinality(DOMAIN signals))
                    ELSE IF MatchingEntries # {} THEN Reconstruction
                    ELSE Num(55 * Scale)))

----------------------------------------------------------------------------
(* Failures of single derivations (checked under Spec)                      *)

\* the inputs of the risk dimensions, by the dimension that reads them
DimensionInputs ==
    [ capacity_risk  |-> {"affordability_buffer_ratio", "residual_income_ratio"},
      liquidity_risk |-> {"cash_buffer_days", "overdraft_usage_days_90d"},
      credit_risk    |-> {"debt_to_income_ratio", "delinquency_30d_count_12m",
                          "delinquency_60d_count_12m", "delinquency_90d_count_12m"} ]

\* a risk dimension whose computation fails on this report: float() raises on
\* one of its inputs
FailingDimensions(sections) ==
    {d \in DOMAIN DimensionInputs :
        \E f \in DimensionInputs[d] : ~IsNone(sections[f]) /\ FloatRaises(Get(sections[f]))}

\* the report with the inputs of dimension d taken out
Without(sections, d) ==
    [f \in DOMAIN sections |-> IF f \in DimensionInputs[d] THEN None ELSE sections[f]]

\* a gateway body whose risk_analysis lacks the risk_level that the risk
\* decision reads
RiskDecisionFails(b) == ~IsNone(b.risk_analysis) /\ IsNone(Get(b.risk_analysis).risk_level)

\* the identifiers of the envelope are there
EnvelopeOk(b) ==
    /\ ~IsNone(b.request_id) /\ ~IsNone(b.customer_id)
    /\ is_gateway_format(b) => (~IsAbsent(b.success) /\ Get(b.success).k = "bool")
    /\ ~is_gateway_format(b) => QSEValid(b)

\* C27: every derived value of the risk-dimension, score-consolidation and
\* gateway steps is individually guarded: when computing one derived value
\* fails (a non-numeric string in an input of a risk dimension, a malformed
\* field used by one gateway derivation), only that value becomes null or
\* absent, the other derived values are unchanged, and the request still
\* returns a successful response and is audited 'completed'.
C27_DerivationsGuarded ==
    (Ended /\ ~IsNone(body) /\ EnvelopeOk(Get(body))) =>
        LET b == Get(body)
        IN  /\ (~is_gateway_format(b) /\ FailingDimensions(b.sections) # {}
                /\ ~NarrativeFailed /\ ~ExplainabilityFailed) =>
                   /\ Answer.status = 200
                   /\ (HasRecord /\ audit_raised = {}) => Record.status = "completed"
                   /\ \A d \in DOMAIN DimensionInputs :
                          LET got == Get(Answer.content.extended).risk_dimensions[d]
                          IN  IF d \in FailingDimensions(b.sections) THEN IsNone(got)
                              ELSE \A e \in FailingDimensions(b.sections) :
                                       got = Extended(Without(AsQSE(b), e),
                                                      Get(expl).feature_importance).risk_dimensions[d]
            /\ (is_gateway_format(b) /\ RiskDecisionFails(b)) =>
                   /\ Answer.status = 200
                   /\ (HasRecord /\ audit_raised = {}) => Record.status = "completed"
                   /\ IsNone(Get(Answer.content.decisions).risk_decision)

----------------------------------------------------------------------------
(* an attempt in which no candidate is found (checked under SpecClient)      *)

\* the errors of a model that is not found or does not support the call
NotFoundErrors == {e_not_found, e_not_supported}

\* a model call that fails
CallFails == pc = "generate" /\ calls' = calls + 1 /\ pc' # "returned"

\* the call of the last candidate of an attempt fails with a not-found error;
\* the loop reaches the last candidate only when every earlier one was skipped
LastCandidateNotFound ==
    CallFails /\ model_idx = Len(candidates) /\ last_err' \in {Some(e) : e \in NotFoundErrors}

\* the attempt ends without a sleep; the next attempt starts at its first
\* candidate, and after the third attempt the error is raised
NotFoundAttemptEnds ==
    LastCandidateNotFound =>
        /\ sleeps' = sleeps
        /\ IF attempt < 3
           THEN pc' = "generate" /\ attempt' = attempt + 1 /\ model_idx' = 1
           ELSE pc' = "raised"

\* the client raised a not-found error and never slept: no attempt had a
\* candidate that answered otherwise
AllAttemptsNotFound ==
    /\ pc = "raised"
    /\ candidates # <<>>
    /\ sleeps = <<>>
    /\ last_err \in {Some(e) : e \in NotFoundErrors}

NotFoundExhausted ==
    AllAttemptsNotFound => calls = 3 * Len(candidates) /\ attempt = 3

\* C28: when every candidate of an attempt fails with a not-found or
\* unsupported error the attempt ends without raising and without a backoff
\* sleep and the next attempt starts at once; when all three attempts end so,
\* the client has made three calls per candidate, has never slept, and raises
\* the last not-found error
C28_NotFoundAttempts == []NotFoundExhausted /\ [][NotFoundAttemptEnds]_vars

\* two candidates, six calls, no sleep, the unsupported error raised
C28_Witness ==
    /\ AllAttemptsNotFound
    /\ Len(candidates) = 2
    /\ calls = 6
    /\ last_err = Some(e_not_supported)

----------------------------------------------------------------------------
(* a response that is no valid report (checked under SpecClient)             *)

\* the call returned text that json.loads or the schema rejects
InvalidResponse ==
    /\ CallFails
    /\ ~IsNone(last_err')
    /\ StartsWith(Get(last_err'), s_invalid_json)

\* the attempt ends at this candidate; a sleep follows unless the attempt
\* was the third
EndsAttempt ==
    /\ model_idx' = model_idx
    /\ attempt' = attempt
    /\ sleeps' = sleeps
    /\ pc' = IF attempt < 3 THEN "sleep" ELSE "raised"

\* asyncio.sleep(2 ** attempt): 2 after the first attempt, 4 after the second
BackoffThenNextAttempt ==
    pc = "sleep" =>
        /\ attempt \in {1, 2}
        /\ sleeps' = Append(sleeps, IF attempt = 1 THEN 2 ELSE 4)
        /\ attempt' = attempt + 1
        /\ model_idx' = 1
        /\ pc' = "generate"

\* a valid response returns at once
ReturnsAtOnce ==
    /\ pc = "generate" /\ pc' = "returned" => calls' = calls + 1 /\ sleeps' = sleeps
    /\ pc = "returned" => calls' = calls /\ sleeps' = sleeps

InvalidResponseRetried ==
    /\ InvalidResponse => EndsAttempt
    /\ BackoffThenNextAttempt
    /\ ReturnsAtOnce

\* C29: a malformed or schema-invalid response ends the current attempt
\* without trying the remaining candidates, a backoff of 2 ** attempt seconds
\* follows (2, then 4) and none after the third attempt, and a valid response
\* returns at once with no further call or sleep
C29_InvalidResponseRetried == [][InvalidResponseRetried]_vars

----------------------------------------------------------------------------
(* the two credit scores of a response (checked under SpecScores)            *)

\* C30: in every successful response the top-level credit_score and the
\* credit_score of the scores block agree: both null, or the same value in
\* [300, 850], also when the score was estimated from the default probability
C30_CreditScoresAgree ==
    ~IsNone(extended) =>
        /\ Get(extended).credit_score = Get(extended).scores.credit_score
        /\ Get(extended).credit_score \in Opt(300..850)

=============================================================================
